---------------------------- MODULE Spec2Model ----------------------------
(***************************************************************************)
(* Model of the MCQ ingestion core of snippet-type-mcq:                    *)
(*   - src/mcq/convertor.py : extract_question_components (record parser)  *)
(*                            convert_to_json_format (batch splitter)      *)
(*   - src/mcq/db.py        : QuestionBank.add_unique_questions and        *)
(*                            QuestionBank.question_exists (dedup store)   *)
(*                                                                         *)
(* Text is a sequence of tokens.  A token is one character ("Q", "1", ".", *)
(* ")", "-", " ", "\n", ...) or one literal that the regular expressions   *)
(* of the source only ever match as a whole (the code fence, written     *)
(* "<fence>" here because the three backquotes cannot stand in a string,    *)
(* "Correct answer:",                                                       *)
(* "Difficulty:", "Tags:", a word).  Every regular expression is computed  *)
(* on the tokens as Python's re computes it on the characters: leftmost    *)
(* match, greedy and lazy quantifiers, lookaheads.                         *)
(***************************************************************************)
EXTENDS Integers, Sequences, FiniteSets, TLC

VARIABLES
    \* --- record parser (extract_question_components) ---
    block,          \* the text of the question block handed to the parser
    shape,          \* how `block` was laid out (the input's own description)
    parsed,         \* the parser's return value (a record or None)
    ppc,            \* "ready" before the call, "done" after it
    \* --- batch splitter (convert_to_json_format) ---
    input_file,     \* the input file: whether it can be read, and its text
    layout,         \* the blocks the text was made of (the input's description)
    expected_count, \* the expected_count argument (0 stands for None)
    qb_id,          \* the qb_id argument ("None" or an id)
    created_by,     \* the created_by argument ("None" or an id)
    json_questions, \* the returned list of records
    handed,         \* the blocks handed to the parser, in order
    outcomes,       \* what the parser returned for each of them, in order
    cpc,            \* "ready" / "done" / "raised"
    \* --- duplicate store (QuestionBank) ---
    store,          \* the documents of the index, in insertion order
    searchable,     \* how many of them the index has made visible to queries
    questions,      \* the argument of the running add_unique_questions call
    qi,             \* position of the loop in `questions` (1-based)
    unique_questions, \* the accepted list being built
    duplicates,     \* the duplicate counter
    is_duplicate,   \* what question_exists returned for questions[qi]
    hits,           \* hits of the last index query, -1 when the query raised
    response,       \* result of the last index request ("none" before any)
    inserts,        \* number of index requests issued for each position of `questions`
    dpc,            \* "idle" / "search" / "encode" / "index" / "returned" / "raised"
    \* --- QC pass (src/qc.py: process_mcqs, perform_qc_with_claude) ---
    qc_input,       \* the text of the input file
    qc_layout,      \* the blocks that text was made of (the input's description)
    qc_questions,   \* `questions`: the blocks found in the input
    question_numbers, \* the parallel list of marker digits
    batch_start,    \* the loop variable i: index of the first block of the batch
    qc_replies,     \* the batches sent so far and what the reviewer answered
    all_corrected_mcqs,
    all_qc_reports,
    output_file,    \* the output file: whether this pass wrote it, and its text
    log_file,       \* the log file, likewise
    qc_result,      \* what process_mcqs returned
    qpc,            \* "off" / "ready" / "review" / "done"
    \* --- one "Generate MCQs" run (src/mcq/app.py) ---
    num_questions,  \* the number of questions asked for
    app_steps,      \* the steps of the run taken so far, in order
    raw_blocks,     \* question blocks in the generated text
    qc_success,     \* "pending", or what process_mcqs answered
    parsed_blocks,  \* blocks handed to the parser in this run
    store_accesses, \* requests made to the duplicate store in this run
    app_json,       \* len(json_questions)
    app_unique,     \* len(unique_questions)
    app_duplicates, \* duplicates
    unique_mcqs_file, \* whether unique_mcqs.json was written in this run
    apc,            \* "off" / "ready" / "generated" / "qc" / "converted" /
                    \* "stored" / "shown" / "qc_failed" / "error"
    \* --- generate_mcqs (src/prompt.py, src/mcq/prompt.py): the retry loop ---
    variant,        \* which file's generate_mcqs runs
    phase,          \* "meta" (the meta-sorting request of src/mcq/prompt.py)
                    \* or "generation"
    max_retries,    \* the max_retries argument
    attempt,        \* the loop variable
    gen_events,     \* the requests issued and the delays taken, in order
    gen_result,     \* the returned content ("" before the return)
    gpc,            \* "off" / "ready" / "loop" / "returned" / "raised" /
                    \* "rejected" (raised before the first loop)
    difficulty,     \* the difficulty argument
    question_type,  \* the question_type argument
    \* --- import_mcqs_to_examly / import_mcqs_to_neowise (src/api_handler.py) ---
    service,        \* which of the two functions runs
    upload_file,    \* the records of the input file (unique_questions)
    upload_qb,      \* the qb_id argument
    posts,          \* the POSTs issued: body and outcome, in order
    successful_uploads,
    failed_uploads,
    upc,            \* "off" / "ready" / "loop" / "returned"
    \* --- the legacy converter (src/convertor.py) ---
    legacy_file,    \* the text of the input file
    legacy_shape,   \* how its block was laid out (the input's description)
    legacy_expected, \* expected_count (0 stands for None)
    legacy_json,    \* the returned list of records
    lpc,            \* "off" / "ready" / "done"
    \* --- process_mcqs of src/mcq/qc.py: the per-question review ---
    rv_input,       \* the input file: [readable, text]
    rv_questions,   \* questions: the blocks read from the file
    processed_questions, \* the reviewed blocks so far
    feedback_list,  \* the feedback kept for each block
    rv_output,      \* the output file: [written, text]
    rv_log,         \* the log file: [written, text]
    rv_result,      \* what the call returned: "none" / "success" / "failure"
    rpc,            \* "off" / "ready" / "loop" / "write" / "returned"
    \* --- add_unique_questions called from several sessions at once ---
    kstore,         \* the documents of the shared index, in insertion order
    ksearchable,    \* how many of them the index has made visible
    kquestion,      \* for each session, the record it submits
    khits,          \* for each session, the hits of its search (-1: raised)
    kunique,        \* for each session, its unique_questions
    kduplicates,    \* for each session, its duplicates
    kpc             \* for each session: "search" / "encode" / "index" /
                    \* "returned" / "raised"

pvars == <<block, shape, parsed, ppc>>
cvars == <<input_file, layout, expected_count, qb_id, created_by,
           json_questions, handed, outcomes, cpc>>
dvars == <<store, searchable, questions, qi, unique_questions, duplicates, is_duplicate,
           hits, response, inserts, dpc>>
qvars == <<qc_input, qc_layout, qc_questions, question_numbers, batch_start,
           qc_replies, all_corrected_mcqs, all_qc_reports, output_file,
           log_file, qc_result, qpc>>
\* the variables of the other components, for the parser, the converter
\* and the duplicate store
avars == <<num_questions, app_steps, raw_blocks, qc_success, parsed_blocks,
           store_accesses, app_json, app_unique, app_duplicates,
           unique_mcqs_file, apc>>
gvars == <<variant, phase, max_retries, attempt, gen_events, gen_result, gpc,
           difficulty, question_type>>
uvars == <<service, upload_file, upload_qb, posts, successful_uploads,
           failed_uploads, upc>>
lvars == <<legacy_file, legacy_shape, legacy_expected, legacy_json, lpc>>
rvars == <<rv_input, rv_questions, processed_questions, feedback_list,
           rv_output, rv_log, rv_result, rpc>>
kvars == <<kstore, ksearchable, kquestion, khits, kunique, kduplicates, kpc>>
yvars == <<rvars, kvars>>
xvars == <<qvars, avars, gvars, uvars, lvars, yvars>>
vars  == <<pvars, cvars, dvars, xvars>>

---------------------------------------------------------------------------
(* Tokens and character classes                                            *)

NL    == "\n"
SP    == " "
FENCE == "<fence>"
CA    == "Correct answer:"
DIFF  == "Difficulty:"
TAGS  == "Tags:"

Digits == {"0", "1", "2", "3", "4", "5", "6", "7", "8", "9"}
\* \w : digits, letters and words made of them
Word   == Digits \cup {"Q", "S", "a", "b", "c", "d", "e", "f", "x", "y", "py",
                       "see", "uestions", "Here", "Easy", "Hard", "t1", "t2", "B"}
\* \s
Space  == {SP, NL}

DigitValue(c) ==
    CASE c = "0" -> 0 [] c = "1" -> 1 [] c = "2" -> 2 [] c = "3" -> 3
      [] c = "4" -> 4 [] c = "5" -> 5 [] c = "6" -> 6 [] c = "7" -> 7
      [] c = "8" -> 8 [] c = "9" -> 9

DigitOf(n) ==
    CASE n = 0 -> "0" [] n = 1 -> "1" [] n = 2 -> "2" [] n = 3 -> "3"
      [] n = 4 -> "4" [] n = 5 -> "5" [] n = 6 -> "6" [] n = 7 -> "7"
      [] n = 8 -> "8" [] n = 9 -> "9"

\* the token at position i, "" past either end
At(t, i) == IF i >= 1 /\ i <= Len(t) THEN t[i] ELSE ""

Min(S) == CHOOSE x \in S : \A y \in S : x <= y
Max(S) == CHOOSE x \in S : \A y \in S : x >= y

\* first position >= i whose token is not in class C (Len(t)+1 when the
\* run reaches the end): where a greedy C* or C+ started at i stops
RunEnd(t, i, C) ==
    Min({j \in i..(Len(t) + 1) : j = Len(t) + 1 \/ t[j] \notin C})

\* first position <= i whose token starts a run of C ending at i
RunStart(t, i, C) ==
    Max({j \in 0..i : j = 0 \/ t[j] \notin C}) + 1

\* str.strip()
Strip(t) ==
    LET a == RunEnd(t, 1, Space)
    IN  IF a > Len(t) THEN <<>>
        ELSE SubSeq(t, a, RunStart(t, Len(t), Space) - 1)

\* int(<digits>) for the digit run t[a..b]
RECURSIVE IntOf(_, _, _)
IntOf(t, a, b) ==
    IF b < a THEN 0 ELSE 10 * IntOf(t, a, b - 1) + DigitValue(t[b])

\* t[a..b] = p, as a substring test
IsAt(t, a, p) ==
    /\ a + Len(p) - 1 <= Len(t)
    /\ \A k \in 1..Len(p) : t[a + k - 1] = p[k]

\* str.replace(p, ""): every non-overlapping occurrence of p, left to right
RECURSIVE RemoveAll(_, _, _)
RemoveAll(t, p, i) ==
    IF i > Len(t) THEN <<>>
    ELSE IF Len(p) > 0 /\ IsAt(t, i, p) THEN RemoveAll(t, p, i + Len(p))
    ELSE <<t[i]>> \o RemoveAll(t, p, i + 1)

---------------------------------------------------------------------------
(* extract_question_components: the regular expressions                    *)

NoMatch == [ok |-> FALSE, start |-> 0, end |-> 0, a |-> 0, b |-> 0]
\* a match t[start..end] whose group of interest is t[a..b]
Match(s, e, a, b) == [ok |-> TRUE, start |-> s, end |-> e, a |-> a, b |-> b]
Group(t, m) == SubSeq(t, m.a, m.b)

\* the position after Q\d+\. matched at i, 0 when it does not match there
QMarkerEnd(t, i) ==
    IF At(t, i) = "Q" /\ At(t, i + 1) \in Digits
    THEN LET k == RunEnd(t, i + 1, Digits)
         IN  IF At(t, k) = "." THEN k + 1 ELSE 0
    ELSE 0

\* the lookahead (?=\n```|\n1\)) at position j
StemLookahead(t, j) ==
    /\ At(t, j) = NL
    /\ \/ At(t, j + 1) = FENCE
       \/ At(t, j + 1) = "1" /\ At(t, j + 2) = ")"

\* Q(\d+)\.\s*(.*?)(?=\n```|\n1\)) tried at position i; the group is
\* group(2).  \s* is greedy: the lazy group starts after the whole run of
\* white space when a lookahead position follows it, and only otherwise
\* does \s* give characters back, which leaves the group empty.
QuestionMatchAt(t, i) ==
    LET s == QMarkerEnd(t, i)
    IN  IF s = 0 THEN NoMatch
        ELSE LET w == RunEnd(t, s, Space)
                 A == {j \in w..Len(t) : StemLookahead(t, j)}
                 B == {j \in s..(w - 1) : StemLookahead(t, j)}
             IN  IF A # {} THEN Match(i, Min(A) - 1, w, Min(A) - 1)
                 ELSE IF B # {} THEN Match(i, Max(B) - 1, Max(B), Max(B) - 1)
                 ELSE NoMatch

\* re.search: the leftmost position where the expression matches
question_match(t) ==
    LET I == {i \in 1..Len(t) : QuestionMatchAt(t, i).ok}
    IN  IF I = {} THEN NoMatch ELSE QuestionMatchAt(t, Min(I))

\* ```(\w+)\n(.*?)``` tried at position i; the group is group(2)
CodeMatchAt(t, i) ==
    IF At(t, i) = FENCE /\ At(t, i + 1) \in Word
    THEN LET k == RunEnd(t, i + 1, Word)
             J == {j \in (k + 1)..Len(t) : t[j] = FENCE}
         IN  IF At(t, k) = NL /\ J # {}
             THEN Match(i, Min(J), k + 1, Min(J) - 1)
             ELSE NoMatch
    ELSE NoMatch

code_match(t) ==
    LET I == {i \in 1..Len(t) : CodeMatchAt(t, i).ok}
    IN  IF I = {} THEN NoMatch ELSE CodeMatchAt(t, Min(I))

\* the position of ")" when \d+\) matches at d, 0 otherwise
OptionMarkerEnd(t, d) ==
    IF At(t, d) \in Digits
    THEN LET k == RunEnd(t, d, Digits)
         IN  IF At(t, k) = ")" THEN k ELSE 0
    ELSE 0

\* ((?:^|\n)\d+\).*?)(?=Correct answer:|$) tried at position i; $ is the
\* end of the text or the place before a final newline
OptionsTextAt(t, i) ==
    LET d == IF i = 1 /\ OptionMarkerEnd(t, 1) # 0 THEN 1
             ELSE IF At(t, i) = NL THEN i + 1 ELSE 0
        k == IF d = 0 THEN 0 ELSE OptionMarkerEnd(t, d)
    IN  IF k = 0 THEN NoMatch
        ELSE LET J == {j \in (k + 1)..(Len(t) + 1) :
                          \/ j = Len(t) + 1
                          \/ t[j] = CA
                          \/ j = Len(t) /\ t[j] = NL}
             IN  Match(i, Min(J) - 1, i, Min(J) - 1)

options_text(t) ==
    LET I == {i \in 1..Len(t) : OptionsTextAt(t, i).ok}
    IN  IF I = {} THEN NoMatch ELSE OptionsTextAt(t, Min(I))

\* the lookahead (?=\n\d+\)|\nCorrect answer:|\Z) at position j
OptionLookahead(o, j) ==
    \/ j = Len(o) + 1
    \/ /\ At(o, j) = NL
       /\ \/ OptionMarkerEnd(o, j + 1) # 0
          \/ At(o, j + 1) = CA

\* re.findall(r'\d+\)\s*(.*?)(?=\n\d+\)|\nCorrect answer:|\Z)', o) from
\* position p on, each group stripped (line 49)
RECURSIVE FindOptions(_, _)
FindOptions(o, p) ==
    LET I == {i \in p..Len(o) : OptionMarkerEnd(o, i) # 0}
    IN  IF I = {} THEN <<>>
        ELSE LET k == OptionMarkerEnd(o, Min(I))
                 w == RunEnd(o, k + 1, Space)
                 j == Min({x \in w..(Len(o) + 1) : OptionLookahead(o, x)})
             IN  <<Strip(SubSeq(o, w, j - 1))>> \o FindOptions(o, j)

\* Correct answer:\s*(\d+) tried at position i
CorrectMatchAt(t, i) ==
    IF At(t, i) = CA
    THEN LET w == RunEnd(t, i + 1, Space)
         IN  IF At(t, w) \in Digits
             THEN Match(i, RunEnd(t, w, Digits) - 1, w, RunEnd(t, w, Digits) - 1)
             ELSE NoMatch
    ELSE NoMatch

correct_match(t) ==
    LET I == {i \in 1..Len(t) : CorrectMatchAt(t, i).ok}
    IN  IF I = {} THEN NoMatch ELSE CorrectMatchAt(t, Min(I))

\* Difficulty:\s*(\w+)
DifficultyMatchAt(t, i) ==
    IF At(t, i) = DIFF
    THEN LET w == RunEnd(t, i + 1, Space)
         IN  IF At(t, w) \in Word
             THEN Match(i, RunEnd(t, w, Word) - 1, w, RunEnd(t, w, Word) - 1)
             ELSE NoMatch
    ELSE NoMatch

difficulty_match(t) ==
    LET I == {i \in 1..Len(t) : DifficultyMatchAt(t, i).ok}
    IN  IF I = {} THEN NoMatch ELSE DifficultyMatchAt(t, Min(I))

\* Tags:\s*(.*?)(?=\n|$)
tags_match(t) ==
    LET I == {i \in 1..Len(t) : t[i] = TAGS}
    IN  IF I = {} THEN NoMatch
        ELSE LET w == RunEnd(t, Min(I) + 1, Space)
                 j == Min({x \in w..(Len(t) + 1) : x = Len(t) + 1 \/ t[x] = NL})
             IN  Match(Min(I), j - 1, w, j - 1)

\* [tag.strip() for tag in s.split(',')]
RECURSIVE SplitTags(_, _)
SplitTags(s, p) ==
    LET C == {i \in p..Len(s) : s[i] = ","}
    IN  IF C = {} THEN <<Strip(SubSeq(s, p, Len(s)))>>
        ELSE <<Strip(SubSeq(s, p, Min(C) - 1))>> \o SplitTags(s, Min(C) + 1)

---------------------------------------------------------------------------
(* extract_question_components                                             *)

\* Optional[Dict]: None carries the warning the parser logged for it
None(reason, n) ==
    [question_type |-> "None", reason |-> reason, count |-> n]
IsNone(r) == r.question_type = "None"

\* line 51: exactly four options
OptionCountOk(options) == Len(options) = 4

\* the range check with its lower end forgotten
AnswerInRange_NoLowerEnd(correct_answer) == correct_answer <= 3

\* line 62: correct_answer in range(4)
AnswerInRange(correct_answer) == correct_answer \in 0..3

\* options[k] as Python indexes a list: a negative k counts from the end;
\* <<FALSE, _>> stands for the IndexError
PyIndex(options, k) ==
    IF k >= 0 /\ k < Len(options) THEN <<TRUE, options[k + 1]>>
    ELSE IF k < 0 /\ -k <= Len(options) THEN <<TRUE, options[Len(options) + k + 1]>>
    ELSE <<FALSE, <<>>>>

OptionRecords(options) ==
    [i \in 1..Len(options) |-> [text |-> options[i], media |-> ""]]

question_editor_type_Plain(code_block) == 1

\* line 92: 3 if code_block else 1
question_editor_type(code_block) == IF code_block # <<>> THEN 3 ELSE 1

\* lines 73-96; the except clause of lines 97-99 turns the IndexError of
\* options[correct_answer] into None
BuildRecord(question_data, options, correct_answer, code_block, question) ==
    LET picked == PyIndex(options, correct_answer)
        dm     == difficulty_match(question)
        tm     == tags_match(question)
    IN  IF ~picked[1] THEN None("Error processing question", 0)
        ELSE [question_type        |-> "mcq_single_correct",
              question_data        |-> question_data,
              options              |-> OptionRecords(options),
              answer               |-> [args |-> <<picked[2]>>, partial |-> <<>>],
              manual_difficulty    |-> IF dm.ok THEN Group(question, dm)
                                       ELSE <<"Easy">>,
              question_editor_type |-> question_editor_type(code_block),
              tags                 |-> IF tm.ok
                                       THEN SplitTags(Group(question, tm), 1)
                                       ELSE <<>>]

\* lines 18-99.  `question0` is the block; `question` is the block after
\* line 35 removed the code block from it.
extract_question_components(question0) ==
    LET qm == question_match(question0)
    IN  IF ~qm.ok THEN None("Invalid question format", 0)
        ELSE
        LET question_text == Strip(Group(question0, qm))
            cm            == code_match(question0)
            code_block    == IF cm.ok THEN Strip(Group(question0, cm)) ELSE <<>>
            question      == IF cm.ok
                             THEN RemoveAll(question0,
                                            SubSeq(question0, cm.start, cm.end), 1)
                             ELSE question0
            question_data == <<"<p>">> \o question_text \o <<"</p>">>
                             \o (IF code_block # <<>>
                                 THEN <<NL, "$$$examly">> \o code_block
                                 ELSE <<>>)
            ot            == options_text(question)
        IN  IF ~ot.ok THEN None("Could not find options section", 0)
            ELSE
            LET options == FindOptions(Group(question, ot), 1)
            IN  IF ~OptionCountOk(options)
                THEN None("Found n options instead of 4", Len(options))
                ELSE
                LET cam == correct_match(question)
                IN  IF ~cam.ok THEN None("No correct answer found", 0)
                    ELSE
                    LET correct_answer == IntOf(question, cam.a, cam.b) - 1
                    IN  IF ~AnswerInRange(correct_answer)
                        THEN None("Invalid correct answer number", 0)
                        ELSE BuildRecord(question_data, options, correct_answer,
                                         code_block, question)

---------------------------------------------------------------------------
(* convert_to_json_format                                                  *)

Dashes == <<"-", "-", "-">>

\* the positions where (?=Q\d+\.)|(?=---) matches (line 120)
SplitPoints(t) ==
    {i \in 1..Len(t) : QMarkerEnd(t, i) # 0 \/ IsAt(t, i, Dashes)}

RECURSIVE SplitAt(_, _, _)
SplitAt(t, P, from) ==
    LET N == {p \in P : p > from}
    IN  IF N = {} THEN <<SubSeq(t, from, Len(t))>>
        ELSE <<SubSeq(t, from, Min(N) - 1)>> \o SplitAt(t, P, Min(N))

\* re.split on the zero-width matches: the text is cut at every match, and
\* a match at the very start leaves an empty first piece
re_split(t) ==
    IF 1 \in SplitPoints(t) THEN <<<<>>>> \o SplitAt(t, SplitPoints(t), 1)
    ELSE SplitAt(t, SplitPoints(t), 1)

\* q.startswith('Q')
StartsWithQ(q) == At(q, 1) = "Q"

\* the filter of line 121
KeepPiece(q) == Strip(q) # <<>> /\ StartsWithQ(q)

\* line 121: [q.strip() for q in questions if q.strip() and q.startswith('Q')]
CleanPieces(pieces) ==
    LET kept == SelectSeq(pieces, KeepPiece)
    IN  [i \in 1..Len(kept) |-> Strip(kept[i])]

\* the truncation left out
Truncate_Never(qs, expected) == qs

\* lines 127-131; expected_count 0 is the falsy None
Truncate(qs, expected) ==
    IF expected # 0 /\ Len(qs) # expected /\ Len(qs) > expected
    THEN SubSeq(qs, 1, expected)
    ELSE qs

\* lines 119-131: the blocks handed to the parser
SplitQuestions(text, expected) == Truncate(CleanPieces(re_split(text)), expected)

\* lines 141-144: the optional fields
WithIds(question_data, qb, cb) ==
    LET a == IF cb # "None" THEN ("createdBy" :> cb) @@ question_data
             ELSE question_data
    IN  IF qb # "None" THEN ("qb_id" :> qb) @@ a ELSE a

\* the loop leaving at the first block the parser rejects
ParseEach_StopAtNone(qs) ==
    LET outs == [i \in 1..Len(qs) |-> extract_question_components(qs[i])]
        bad  == {i \in 1..Len(qs) : IsNone(outs[i])}
    IN  IF bad = {} THEN outs ELSE SubSeq(outs, 1, Min(bad))

\* lines 135-138: the loop calls the parser on every block, in order
ParseEach(qs) == [i \in 1..Len(qs) |-> extract_question_components(qs[i])]

\* lines 139-146: a block that gave a record appends it, with the optional
\* fields; a block that gave None appends nothing
RECURSIVE Collect(_, _, _, _)
Collect(outs, i, qb, cb) ==
    IF i > Len(outs) THEN <<>>
    ELSE (IF ~IsNone(outs[i]) THEN <<WithIds(outs[i], qb, cb)>> ELSE <<>>)
         \o Collect(outs, i + 1, qb, cb)

\* lines 101-154, for a file that could be read
convert_to_json_format(text, qb, cb, expected) ==
    Collect(ParseEach(SplitQuestions(text, expected)), 1, qb, cb)

---------------------------------------------------------------------------
(* QuestionBank: the index and its phrase query                            *)

\* the slop of the match_phrase query (src/mcq/db.py line 109)
Slop == 3

\* The index analyses a text field, and the text of a query on it, into
\* lower-case terms: white space and punctuation separate terms and are
\* dropped, so <p> and </p> leave the term p.
Term(tok) ==
    CASE tok \in {"<p>", "</p>"} -> "p"
      [] tok = "What" -> "what"
      [] tok = "C" -> "c"
      [] tok = "$$$examly" -> "examly"
      [] OTHER -> tok

Punctuation == {SP, NL, "?", ".", ",", ":", "(", ")", "-"}

RECURSIVE Analyze(_)
Analyze(text) ==
    IF text = <<>> THEN <<>>
    ELSE (IF Head(text) \in Punctuation THEN <<>> ELSE <<Term(Head(text))>>)
         \o Analyze(Tail(text))

\* the query terms q[i..] can be placed on positions of d not in `used`,
\* each on a position holding that term, with the displacements
\* (position in d - position in q) all within lo..hi widened to at most
\* Slop apart
RECURSIVE PlaceTerms(_, _, _, _, _, _)
PlaceTerms(q, d, i, used, lo, hi) ==
    IF i > Len(q) THEN TRUE
    ELSE \E p \in 1..Len(d) :
            /\ d[p] = q[i]
            /\ p \notin used
            /\ LET off == p - i
                   lo2 == IF off < lo THEN off ELSE lo
                   hi2 == IF off > hi THEN off ELSE hi
               IN  /\ hi2 - lo2 <= Slop
                   /\ PlaceTerms(q, d, i + 1, used \cup {p}, lo2, hi2)

\* the phrase query answers for every term of the query whatever the
\* document holds: a term the document lacks is left out of the phrase
MatchPhrase_SkipMissingTerms(query, field) ==
    LET q  == Analyze(query)
        d  == Analyze(field)
        q2 == SelectSeq(q, LAMBDA t : \E p \in 1..Len(d) : d[p] = t)
    IN  /\ q2 # <<>>
        /\ \E p \in 1..Len(d) :
              d[p] = q2[1] /\ PlaceTerms(q2, d, 2, {p}, p - 1, p - 1)

\* match_phrase with slop (lines 106-111): every term of the query occurs
\* in the document field, in positions that are the phrase's positions
\* moved by at most Slop
MatchPhrase(query, field) ==
    LET q == Analyze(query)
        d == Analyze(field)
    IN  /\ q # <<>>
        /\ \E p \in 1..Len(d) :
              d[p] = q[1] /\ PlaceTerms(q, d, 2, {p}, p - 1, p - 1)

\* lines 74-76: the comparison key, the text before the separator
ComparisonKey(question_data) ==
    LET S == {i \in 1..Len(question_data) : question_data[i] = "$$$examly"}
    IN  IF S = {} THEN question_data
        ELSE SubSeq(question_data, 1, Min(S) - 1)

\* lines 117-118: the stored documents the query hits
Hits(docs, question_text) ==
    {i \in 1..Len(docs) : MatchPhrase(question_text, docs[i].question_data)}

\* question_exists (lines 99-124): TRUE when the query completed with a
\* hit; a query that raises is caught and answered FALSE (lines 122-124)
question_exists(docs, question_text, query_ok) ==
    query_ok /\ Hits(docs, question_text) # {}

\* the append is done whatever the index answered
InsertAccepted_Always(result) == TRUE

\* line 87: response['result'] == 'created'
InsertAccepted(result) == result = "created"

\* lines 82-83: the question with its vector, the embedding of its key
WithVector(question) ==
    ("question_vector" :> <<"embedding of", ComparisonKey(question.question_data)>>)
    @@ question

---------------------------------------------------------------------------
(* src/qc.py: the batched QC pass                                          *)

BATCH_SIZE == 5

QCR == "=== QC REPORT ==="

\* p in t
Contains(t, p) == \E i \in 1..Len(t) : IsAt(t, i, p)

\* str.split(sep): the text cut at every occurrence of sep, left to right
RECURSIVE str_split(_, _, _)
str_split(t, sep, from) ==
    LET I == {i \in from..Len(t) : IsAt(t, i, sep)}
    IN  IF I = {} THEN <<SubSeq(t, from, Len(t))>>
        ELSE <<SubSeq(t, from, Min(I) - 1)>>
             \o str_split(t, sep, Min(I) + Len(sep))

\* str.join
RECURSIVE str_join(_, _)
str_join(sep, parts) ==
    IF parts = <<>> THEN <<>>
    ELSE IF Len(parts) = 1 THEN parts[1]
    ELSE parts[1] \o sep \o str_join(sep, Tail(parts))

\* s[a:b] of Python for 0 <= a <= b
Slice(s, a, b) == SubSeq(s, a + 1, Min({b, Len(s)}))

\* lines 267-284
RequiredElements ==
    {<<"Q">>, <<"1", ")">>, <<"2", ")">>, <<"3", ")">>, <<"4", ")">>, <<CA>>,
     <<DIFF>>, <<"Subject:">>, <<"Topic:">>, <<"Sub-topic:">>, <<TAGS>>}

verify_mcq_format(mcq_text) ==
    \A element \in RequiredElements : Contains(mcq_text, element)

\* line 98: re.sub(r'^.*?(?=Q\d+\.)', '', mcqs, flags=re.DOTALL).  The
\* expression matches at the start of the text only, lazily up to the first
\* Q<digits>. and the match is removed.  When the text starts with a
\* marker that first match is empty, and re.sub then takes a second, non
\* empty match from the same place: the text up to the next marker is
\* removed, the first question with it.
DropLeadingText(mcqs) ==
    LET P == {i \in 1..Len(mcqs) : QMarkerEnd(mcqs, i) # 0}
    IN  IF P = {} THEN mcqs
        ELSE IF Min(P) > 1 THEN SubSeq(mcqs, Min(P), Len(mcqs))
        ELSE IF P = {1} THEN mcqs
        ELSE SubSeq(mcqs, Min(P \ {1}), Len(mcqs))

\* lines 99 and 231:
\* [q.strip() for q in text.split('---') if q.strip() and q.strip().startswith('Q')]
SplitBlocks(text) ==
    LET kept == SelectSeq(str_split(text, Dashes, 1),
                          LAMBDA q : Strip(q) # <<>> /\ StartsWithQ(Strip(q)))
    IN  [i \in 1..Len(kept) |-> Strip(kept[i])]

\* lines 104-106: the digits of the first Q<digits>. found in the block,
\* <<>> when the block has none
MarkerDigits(q) ==
    LET P == {i \in 1..Len(q) : QMarkerEnd(q, i) # 0}
    IN  IF P = {} THEN <<>>
        ELSE SubSeq(q, Min(P) + 1, QMarkerEnd(q, Min(P)) - 2)

\* lines 102-106: a number is appended only for the blocks that have one
RECURSIVE QuestionNumbers(_)
QuestionNumbers(qs) ==
    IF qs = <<>> THEN <<>>
    ELSE (IF MarkerDigits(Head(qs)) # <<>> THEN <<MarkerDigits(Head(qs))>>
          ELSE <<>>) \o QuestionNumbers(Tail(qs))

\* lines 225-228
QuestionsPart(batch_response) ==
    IF Contains(batch_response, <<QCR>>)
    THEN Strip(str_split(batch_response, <<QCR>>, 1)[1])
    ELSE Strip(batch_response)

\* line 243: the report kept for the batch
BatchReport(batch_response) ==
    IF Contains(batch_response, <<QCR>>)
    THEN Strip(str_split(batch_response, <<QCR>>, 1)[2])
    ELSE <<"No QC report provided">>

\* line 233
CountMatches(response_questions, batch_count) ==
    Len(response_questions) = batch_count

\* lines 238-240: zip stops at the shorter list
NumbersMatch(response_questions, current_question_numbers) ==
    \A j \in 1..Min({Len(response_questions), Len(current_question_numbers)}) :
        IsAt(response_questions[j], 1,
             <<"Q">> \o current_question_numbers[j] \o <<".">>)

\* line 246
JoinCorrected(all_corrected) ==
    str_join(<<NL, NL>> \o Dashes \o <<NL, NL>>, all_corrected)

---------------------------------------------------------------------------
(* Question blocks given to the parser                                     *)

MaxOptions == 5     \* option lines per block: 0..MaxOptions
MaxAnswer  == 5     \* the number after "Correct answer:": 0..MaxAnswer

StemKinds == {"plain", "none", "paren", "qref"}
CodeKinds == {"none", "tagged", "untagged", "blank", "optline", "dashes"}
OptKinds  == {"plain", "empty", "inline", "bold", "fence", "code"}
AnsKinds  == {"none", "word", "num"}

RECURSIVE Decimal(_)
Decimal(n) == IF n < 10 THEN <<DigitOf(n)>> ELSE Decimal(n \div 10) \o <<DigitOf(n % 10)>>

Marker(n) == <<"Q">> \o Decimal(n) \o <<".">>

StemText(k) ==
    CASE k = "plain" -> <<SP, "S", "?">>
      [] k = "none"  -> <<>>
      [] k = "paren" -> <<SP, "f", "(", "1", ")", "?">>
      [] k = "qref"  -> <<SP, "see", SP, "Q", "9", ".", SP, "S", "?">>

\* "tagged" is a fenced block with a language tag, "untagged" one without,
\* "blank" a tagged block holding white space only, "optline" an untagged
\* block whose line reads like an option, "dashes" a tagged block whose
\* code line contains three dashes
CodeText(k) ==
    CASE k = "none"     -> <<>>
      [] k = "tagged"   -> <<NL, FENCE, "py", NL, "x", NL, FENCE>>
      [] k = "untagged" -> <<NL, FENCE, NL, "x", NL, FENCE>>
      [] k = "blank"    -> <<NL, FENCE, "py", NL, SP, NL, FENCE>>
      [] k = "optline"  -> <<NL, FENCE, NL, "1", ")", SP, "x", NL, FENCE>>
      [] k = "dashes"   -> <<NL, FENCE, "py", NL, "x", "-", "-", "-", "x", NL, FENCE>>

OptLetter(i) ==
    CASE i = 1 -> "a" [] i = 2 -> "b" [] i = 3 -> "c" [] i = 4 -> "d"
      [] i = 5 -> "e" [] OTHER -> "f"

\* the Markdown emphasis marker
EM == "**"

\* the text of option i: its letter; with "empty" option 2 has no text;
\* with "inline" option 1 holds a digit and a parenthesis inside its text;
\* with "bold" option 1 is written with emphasis markers; with "fence"
\* option 3 is written between two fences on one line; with "code" option
\* 1 is followed by a language-tagged fenced block
OptionText(i, k) ==
    IF k = "empty" /\ i = 2 THEN <<>>
    ELSE IF k = "inline" /\ i = 1 THEN <<"f", "(", "2", ")">>
    ELSE IF k = "bold" /\ i = 1 THEN <<EM, "a", EM>>
    ELSE IF k = "fence" /\ i = 3 THEN <<FENCE, "c", FENCE>>
    ELSE IF k = "code" /\ i = 1
         THEN <<"a", SP, FENCE, "py", NL, "y", NL, FENCE>>
    ELSE <<OptLetter(i)>>

RECURSIVE OptionLines(_, _, _)
OptionLines(i, n, k) ==
    IF i > n THEN <<>>
    ELSE <<NL>> \o Decimal(i) \o <<")", SP>> \o OptionText(i, k)
         \o OptionLines(i + 1, n, k)

AnswerLine(k, n) ==
    CASE k = "none" -> <<>>
      [] k = "word" -> <<NL, CA, SP, "B">>
      [] k = "num"  -> <<NL, CA, SP>> \o Decimal(n)

MetaLines(m) ==
    IF m THEN <<NL, DIFF, SP, "Hard", NL, TAGS, SP, "t1", ",", SP, "t2">>
    ELSE <<>>

Shapes ==
    {sh \in [qn : {1}, stem : StemKinds, code : CodeKinds,
             nopts : 0..MaxOptions, optkind : OptKinds,
             anskind : AnsKinds, ans : 0..MaxAnswer, meta : BOOLEAN] :
        /\ sh.anskind # "num" => sh.ans = 0
        /\ sh.nopts < 2 => sh.optkind = "plain"}

\* the block as the splitter hands it over: stripped (line 121)
BlockText(sh) ==
    Strip(Marker(sh.qn) \o StemText(sh.stem) \o CodeText(sh.code)
          \o OptionLines(1, sh.nopts, sh.optkind)
          \o AnswerLine(sh.anskind, sh.ans) \o MetaLines(sh.meta))

NotCalled == None("not called", 0)

---------------------------------------------------------------------------
(* State machines                                                          *)

IdleParser ==
    /\ block = <<>> /\ shape = <<>> /\ parsed = NotCalled /\ ppc = "idle"

IdleConvert ==
    /\ input_file = <<>> /\ layout = <<>> /\ expected_count = 0
    /\ qb_id = "None" /\ created_by = "None"
    /\ json_questions = <<>> /\ handed = <<>> /\ outcomes = <<>>
    /\ cpc = "idle"

IdleDedup ==
    /\ store = <<>> /\ searchable = 0 /\ questions = <<>> /\ qi = 0
    /\ unique_questions = <<>> /\ duplicates = 0 /\ is_duplicate = FALSE
    /\ hits = 0 /\ response = "none" /\ inserts = <<>> /\ dpc = "off"

NoFile == [written |-> FALSE, text |-> <<>>]
NoResult == [success |-> FALSE, mcqs |-> <<>>, report |-> "not called"]

IdleQC ==
    /\ qc_input = <<>> /\ qc_layout = <<>> /\ qc_questions = <<>>
    /\ question_numbers = <<>> /\ batch_start = 0 /\ qc_replies = <<>>
    /\ all_corrected_mcqs = <<>> /\ all_qc_reports = <<>>
    /\ output_file = NoFile /\ log_file = NoFile
    /\ qc_result = NoResult /\ qpc = "off"

IdleApp ==
    /\ num_questions = 0 /\ app_steps = <<>> /\ raw_blocks = 0
    /\ qc_success = "pending" /\ parsed_blocks = 0 /\ store_accesses = 0
    /\ app_json = 0 /\ app_unique = 0 /\ app_duplicates = 0
    /\ unique_mcqs_file = FALSE /\ apc = "off"

IdleGen ==
    /\ variant = "" /\ phase = "" /\ max_retries = 0 /\ attempt = 0
    /\ gen_events = <<>> /\ gen_result = "" /\ gpc = "off"
    /\ difficulty = "" /\ question_type = ""

IdleUpload ==
    /\ service = "" /\ upload_file = <<>> /\ upload_qb = "" /\ posts = <<>>
    /\ successful_uploads = 0 /\ failed_uploads = 0 /\ upc = "off"

IdleLegacy ==
    /\ legacy_file = <<>> /\ legacy_shape = <<>> /\ legacy_expected = 0
    /\ legacy_json = <<>> /\ lpc = "off"

IdleReview ==
    /\ rv_input = <<>> /\ rv_questions = <<>> /\ processed_questions = <<>>
    /\ feedback_list = <<>> /\ rv_output = NoFile /\ rv_log = NoFile
    /\ rv_result = "none" /\ rpc = "off"

IdleConc ==
    /\ kstore = <<>> /\ ksearchable = 0 /\ kquestion = <<>> /\ khits = <<>>
    /\ kunique = <<>> /\ kduplicates = <<>> /\ kpc = <<>>

IdleY == IdleReview /\ IdleConc

IdleX == IdleQC /\ IdleApp /\ IdleGen /\ IdleUpload /\ IdleLegacy /\ IdleY

InitParser ==
    /\ shape \in Shapes
    /\ block = BlockText(shape)
    /\ parsed = NotCalled
    /\ ppc = "ready"
    /\ IdleConvert /\ IdleDedup /\ IdleX

\* one call of extract_question_components on the block
Extract ==
    /\ ppc = "ready"
    /\ parsed' = extract_question_components(block)
    /\ ppc' = "done"
    /\ UNCHANGED <<block, shape, cvars, dvars, xvars>>

NextParser == Extract

SpecParser == InitParser /\ [][NextParser]_vars

---------------------------------------------------------------------------
(* Input files given to convert_to_json_format                             *)

MaxBlocks   == 2     \* question blocks per input file: 0..MaxBlocks
MaxExpected == 3     \* expected_count: 0 (None) .. MaxExpected

\* the creator id the Generate MCQs handler passes (src/mcq/app.py line 59)
CreatedBy == "19d0e40a-fd35-4741-89ab-11f3c7d4b118"

PreKinds   == {"none", "here", "questions"}
BlockKinds == {"good", "goodcode", "bad3", "noans", "dashcode", "qref"}
WellFormedKinds == {"good", "goodcode", "dashcode", "qref"}

\* text before the first question: nothing, "Here a:" or "Questions:"
PreText(k) ==
    CASE k = "none"      -> <<>>
      [] k = "here"      -> <<"Here", SP, "a", ":", NL, NL>>
      [] k = "questions" -> <<"Q", "uestions", ":", NL, NL>>

\* the n-th block of a file: marker Qn; a well-formed kind has a stem, four
\* options, an answer number in 1..4 and the metadata lines
ConvShape(k, n) ==
    [qn      |-> n,
     stem    |-> IF k = "qref" THEN "qref" ELSE "plain",
     code    |-> CASE k = "goodcode" -> "tagged" [] k = "dashcode" -> "dashes"
                   [] OTHER -> "none",
     nopts   |-> IF k = "bad3" THEN 3 ELSE 4,
     optkind |-> "plain",
     anskind |-> IF k = "noans" THEN "none" ELSE "num",
     ans     |-> IF k = "noans" THEN 0 ELSE ((n - 1) % 4) + 1,
     meta    |-> TRUE]

\* blocks are separated by a line holding only ---
Separator == <<NL>> \o Dashes \o <<NL>>

RECURSIVE BlocksText(_, _)
BlocksText(kinds, i) ==
    IF i > Len(kinds) THEN <<>>
    ELSE BlockText(ConvShape(kinds[i], i)) \o Separator \o BlocksText(kinds, i + 1)

FileText(lay) == PreText(lay.pre) \o BlocksText(lay.blocks, 1)

Layouts ==
    [pre : PreKinds, blocks : UNION {[1..n -> BlockKinds] : n \in 0..MaxBlocks}]

InitConvert ==
    /\ layout \in Layouts
    /\ input_file \in {[readable |-> r, text |-> FileText(layout)] : r \in BOOLEAN}
    /\ expected_count \in 0..MaxExpected
    /\ qb_id = "None"
    /\ created_by = CreatedBy
    /\ json_questions = <<>>
    /\ handed = <<>>
    /\ outcomes = <<>>
    /\ cpc = "ready"
    /\ IdleParser /\ IdleDedup /\ IdleX

\* one call of convert_to_json_format; a file that cannot be read raises
\* (lines 116, 156-158)
Convert ==
    /\ cpc = "ready"
    /\ IF input_file.readable
       THEN /\ handed' = SplitQuestions(input_file.text, expected_count)
            /\ outcomes' = ParseEach(handed')
            /\ json_questions' = Collect(outcomes', 1, qb_id, created_by)
            /\ cpc' = "done"
       ELSE /\ cpc' = "raised"
            /\ UNCHANGED <<json_questions, handed, outcomes>>
    /\ UNCHANGED <<input_file, layout, expected_count, qb_id, created_by,
                   pvars, dvars, xvars>>

NextConvert == Convert

SpecConvert == InitConvert /\ [][NextConvert]_vars

---------------------------------------------------------------------------
(* QuestionBank.add_unique_questions against the index                     *)

MaxBatch == 2     \* records per add_unique_questions call: 0..MaxBatch
MaxStore == 3     \* documents the index comes to hold

ShortText == <<"<p>", "What", SP, "is", SP, "a", SP, "pointer", SP, "in", SP,
               "C", "?", "</p>">>
LongText  == <<"<p>", "What", SP, "is", SP, "a", SP, "pointer", SP, "in", SP,
               "the", SP, "C", SP, "language", "?", "</p>">>
LoopText  == <<"<p>", "What", SP, "is", SP, "a", SP, "loop", "?", "</p>">>

\* the records submitted: question_data as convert_to_json_format builds it
\* (stem, then the separator and the code when there is code) and the
\* options, which stand for the rest of the record
QuestionNames == {"short", "long", "shortcode", "loop"}

Question(name) ==
    CASE name = "short"     -> [question_data |-> ShortText, options |-> "A"]
      [] name = "long"      -> [question_data |-> LongText, options |-> "A"]
      [] name = "shortcode" ->
            [question_data |-> ShortText \o <<"$$$examly", "int", SP, "x">>,
             options |-> "B"]
      [] name = "loop"      -> [question_data |-> LoopText, options |-> "A"]

Batches ==
    UNION {[1..n -> {Question(k) : k \in QuestionNames}] : n \in 0..MaxBatch}

InitDedup ==
    /\ store = <<>> /\ searchable = 0 /\ questions = <<>> /\ qi = 0
    /\ unique_questions = <<>> /\ duplicates = 0 /\ is_duplicate = FALSE
    /\ hits = 0 /\ response = "none" /\ inserts = <<>> /\ dpc = "idle"
    /\ IdleParser /\ IdleConvert /\ IdleX

\* the for loop goes to its next record, or the function returns (line 97)
NextQuestion ==
    /\ qi' = qi + 1
    /\ dpc' = IF qi < Len(questions) THEN "search" ELSE "returned"

\* a call of add_unique_questions (lines 70-72); the index keeps what the
\* earlier calls stored
AddUniqueQuestions ==
    /\ dpc \in {"idle", "returned", "raised"}
    /\ \E qs \in Batches :
          /\ Len(store) + Len(qs) <= MaxStore
          /\ questions' = qs
          /\ inserts' = [i \in 1..Len(qs) |-> 0]
          /\ qi' = 1
          /\ dpc' = IF qs = <<>> THEN "returned" ELSE "search"
    /\ unique_questions' = <<>>
    /\ duplicates' = 0
    /\ is_duplicate' = FALSE /\ hits' = 0 /\ response' = "none"
    /\ UNCHANGED <<store, searchable, pvars, cvars, xvars>>

\* lines 73-80 and 92-95: the key of the record is looked up; the query
\* completes or raises inside question_exists
QuestionExists ==
    /\ dpc = "search"
    /\ \E query_ok \in BOOLEAN :
          LET question_text == ComparisonKey(questions[qi].question_data)
              docs == SubSeq(store, 1, searchable)
          IN  /\ is_duplicate' = question_exists(docs, question_text, query_ok)
              /\ hits' = IF query_ok
                         THEN Cardinality(Hits(docs, question_text)) ELSE -1
    /\ IF is_duplicate'
       THEN duplicates' = duplicates + 1 /\ NextQuestion
       ELSE dpc' = "encode" /\ UNCHANGED <<duplicates, qi>>
    /\ UNCHANGED <<store, searchable, questions, unique_questions, response,
                   inserts, pvars, cvars, xvars>>

\* lines 82-83: the embedding is computed and put on the record, or the
\* encoder raises, which nothing in add_unique_questions catches
Encode ==
    /\ dpc = "encode"
    /\ \E encode_ok \in BOOLEAN :
          IF encode_ok
          THEN /\ questions' = [questions EXCEPT ![qi] = WithVector(@)]
               /\ dpc' = "index"
          ELSE /\ dpc' = "raised"
               /\ UNCHANGED questions
    /\ UNCHANGED <<store, searchable, qi, unique_questions, duplicates,
                   is_duplicate, hits, response, inserts, pvars, cvars,
                   xvars>>

\* lines 86-91: the insert request; it answers 'created', answers
\* something else, or raises
Index ==
    /\ dpc = "index"
    /\ inserts' = [inserts EXCEPT ![qi] = @ + 1]
    /\ \E result \in {"created", "noop", "raised"} :
          /\ response' = result
          /\ store' = IF result = "created"
                      THEN Append(store, questions[qi]) ELSE store
          /\ IF result = "raised"
             THEN /\ dpc' = "raised"
                  /\ UNCHANGED <<qi, unique_questions>>
             ELSE /\ unique_questions' =
                        IF InsertAccepted(result)
                        THEN Append(unique_questions, questions[qi])
                        ELSE unique_questions
                  /\ NextQuestion
    /\ UNCHANGED <<searchable, questions, duplicates, is_duplicate, hits,
                   pvars, cvars, xvars>>

\* The insert of line 86 asks for no refresh and the index is created
\* (lines 40-47) with the default refresh policy: a stored document is
\* seen by queries only from the index's next refresh on.
Refresh ==
    /\ searchable < Len(store)
    /\ searchable' = Len(store)
    /\ UNCHANGED <<store, questions, qi, unique_questions, duplicates,
                   is_duplicate, hits, response, inserts, dpc, pvars, cvars,
                   xvars>>

NextDedup ==
    AddUniqueQuestions \/ QuestionExists \/ Encode \/ Index \/ Refresh

SpecDedup == InitDedup /\ [][NextDedup]_vars

---------------------------------------------------------------------------
(* What a block says of itself, read off its layout and not off the parser *)

\* the option lines of the block: the lines <number>) <text> with a text,
\* outside a language-tagged code block
OptionCount(sh) ==
    Cardinality({i \in 1..sh.nopts : OptionText(i, sh.optkind) # <<>>})
    + (IF sh.code = "optline" THEN 1 ELSE 0)

HasAnswerLine(sh) == sh.anskind # "none"

\* the record a well-formed block stands for: its stem, its code, its four
\* option texts and the text of the option its answer number names
ExpectedRecord(sh) ==
    [question_type        |-> "mcq_single_correct",
     question_data        |-> <<"<p>">> \o Strip(StemText(sh.stem)) \o <<"</p>">>
                              \o (IF sh.code = "none" THEN <<>>
                                  ELSE <<NL, "$$$examly">>
                                       \o (IF sh.code = "dashes"
                                           THEN <<"x", "-", "-", "-", "x">>
                                           ELSE <<"x">>)),
     options              |-> [i \in 1..4 |-> [text |-> <<OptLetter(i)>>, media |-> ""]],
     answer               |-> [args |-> <<<<OptLetter(sh.ans)>>>>, partial |-> <<>>],
     manual_difficulty    |-> <<"Hard">>,
     question_editor_type |-> IF sh.code = "none" THEN 1 ELSE 3,
     tags                 |-> << <<"t1">>, <<"t2">> >>]

---------------------------------------------------------------------------
---------------------------------------------------------------------------
(* Claims on convert_to_json_format                                        *)

\* the text of the i-th block of the file as it was written
WrittenBlock(i) == BlockText(ConvShape(layout.blocks[i], i))

\* the records of the blocks the parser accepted, in order
Accepted(outs) == SelectSeq(outs, LAMBDA r : ~IsNone(r))

\* record r with nothing but the creator id added
SameButCreator(j, r) ==
    /\ \A f \in DOMAIN r : f \in DOMAIN j /\ j[f] = r[f]
    /\ DOMAIN j = DOMAIN r \cup {"createdBy"}
    /\ j["createdBy"] = created_by

(* C2 -- a malformed block never raises past the parser and never aborts   *)
(* the batch: the parser returns None for it, every block handed over is   *)
(* parsed, and every well-formed block before or after it yields its       *)
(* record.                                                                 *)
C2_MalformedBlockIsSkipped ==
    /\ input_file.readable => cpc # "raised"
    /\ cpc = "done" =>
          /\ Len(outcomes) = Len(handed)
          /\ \A i \in 1..Len(handed) : \A n \in 1..MaxBlocks :
                /\ \A k \in BlockKinds \ WellFormedKinds :
                      handed[i] = BlockText(ConvShape(k, n))
                          => IsNone(outcomes[i])
                /\ \A k \in WellFormedKinds :
                      handed[i] = BlockText(ConvShape(k, n))
                          => outcomes[i] = ExpectedRecord(ConvShape(k, n))
          /\ Len(json_questions) = Len(Accepted(outcomes))
          /\ \A j \in 1..Len(json_questions) :
                SameButCreator(json_questions[j], Accepted(outcomes)[j])

\* a block with three options stood before a well-formed one: the first
\* gave None, the second gave the only record
C2_Witness ==
    /\ cpc = "done"
    /\ layout.blocks = <<"bad3", "good">>
    /\ Len(handed) = 2
    /\ IsNone(outcomes[1]) /\ ~IsNone(outcomes[2])
    /\ Len(json_questions) = 1
    /\ json_questions[1].answer.args = << <<"b">> >>

(* C3 -- for a text of n well-formed blocks Q1..Qn and expected_count = n  *)
(* the splitter yields n blocks in the order of the markers and the        *)
(* converter returns n records, the i-th from the i-th block, no rejects.  *)
C3_WellFormedTextGivesAllRecords ==
    ( /\ cpc = "done"
      /\ layout.pre = "none"
      /\ Len(layout.blocks) >= 1
      /\ \A i \in 1..Len(layout.blocks) : layout.blocks[i] \in WellFormedKinds
      /\ expected_count = Len(layout.blocks) )
    => /\ Len(handed) = Len(layout.blocks)
       /\ \A i \in 1..Len(handed) : IsAt(handed[i], 1, Marker(i))
       /\ \A i \in 1..Len(outcomes) : ~IsNone(outcomes[i])
       /\ Len(json_questions) = Len(layout.blocks)
       /\ \A i \in 1..Len(json_questions) :
             SameButCreator(json_questions[i],
                            ExpectedRecord(ConvShape(layout.blocks[i], i)))

\* no inline marker, no inline dashes, no leading text starting with Q
OrdinaryLayout ==
    /\ layout.pre # "questions"
    /\ \A i \in 1..Len(layout.blocks) :
          layout.blocks[i] \in {"good", "goodcode", "bad3", "noans"}

(* C4 -- with a positive expected_count: more blocks found than expected   *)
(* -> only the first expected_count blocks, in text order, are parsed;     *)
(* fewer found -> all found blocks are parsed; neither raises; so at most  *)
(* expected_count records are returned.                                    *)
C4_ExpectedCountTruncates ==
    /\ input_file.readable => cpc # "raised"
    /\ (cpc = "done" /\ expected_count > 0) =>
          LET found == CleanPieces(re_split(input_file.text))
          IN  /\ Len(found) > expected_count
                    => handed = SubSeq(found, 1, expected_count)
              /\ Len(found) <= expected_count => handed = found
              /\ Len(outcomes) = Len(handed)
              /\ Len(json_questions) <= expected_count
              /\ OrdinaryLayout =>
                    /\ Len(found) = Len(layout.blocks)
                    /\ \A i \in 1..Len(handed) : handed[i] = WrittenBlock(i)

\* two blocks found, one expected: only the first was parsed
C4_Witness ==
    /\ cpc = "done" /\ expected_count = 1
    /\ layout.blocks = <<"good", "goodcode">>
    /\ handed = <<WrittenBlock(1)>>
    /\ Len(json_questions) = 1

(* C5 -- every block handed to the parser and counted against              *)
(* expected_count begins with the marker Q<digits>. ; empty pieces and     *)
(* leading text without that marker are discarded before counting.         *)
C5_HandedBlocksStartWithMarker ==
    cpc = "done" =>
        \A i \in 1..Len(handed) : QMarkerEnd(handed[i], 1) # 0

(* C6 -- blocks are cut only where a line begins with Q<digits>. or at a   *)
(* line that is --- alone: an inline Q<digits>. or --- (in a stem, in a    *)
(* code line) neither splits nor truncates its block.                      *)
C6_SplitOnlyAtLineStarts ==
    (cpc = "done" /\ expected_count = 0 /\ layout.pre = "none")
    => /\ Len(handed) = Len(layout.blocks)
       /\ \A i \in 1..Len(handed) : handed[i] = WrittenBlock(i)

---------------------------------------------------------------------------
(* Claims about add_unique_questions                                       *)

\* the record's comparison key matches a document the index holds
KeyMatchesStored(question) ==
    \E i \in 1..Len(store) :
        MatchPhrase(ComparisonKey(question.question_data),
                    store[i].question_data)

\* C7: in add_unique_questions, a record whose comparison key matches a
\* stored record is counted as a duplicate exactly once, no insert is
\* issued for it (it does not go on to the embedding and the insert), the
\* accepted list and the store are left as they were, and the loop goes on
\* to the next record.
C7_MatchingRecordIsCountedNotStored ==
    [][(QuestionExists /\ KeyMatchesStored(questions[qi]))
        => /\ duplicates' = duplicates + 1
           /\ inserts' = inserts
           /\ unique_questions' = unique_questions
           /\ store' = store
           /\ qi' = qi + 1
           /\ dpc' \in {"search", "returned"}]_vars

RECURSIVE IsSubsequence(_, _)
IsSubsequence(a, b) ==
    IF a = <<>> THEN TRUE
    ELSE IF b = <<>> THEN FALSE
    ELSE IF Head(a) = Head(b) THEN IsSubsequence(Tail(a), Tail(b))
    ELSE IsSubsequence(a, Tail(b))

\* C8: a record that is not a duplicate is appended to the accepted list
\* exactly when its insert answers 'created'; on any other answer it is in
\* neither tally, and no record is ever inserted twice.  A single record
\* submitted to an empty store whose insert answers 'created' is accepted
\* with duplicate count 0.  When a call has returned, the accepted list is
\* an order-preserving subsequence of the input and
\* len(accepted) + duplicates <= len(input).
C8_AcceptedExactlyWhenCreated ==
    /\ [][Index =>
            /\ inserts[qi] = 0 /\ inserts'[qi] = 1
            /\ duplicates' = duplicates
            /\ IF response' = "created"
               THEN unique_questions' = Append(unique_questions, questions[qi])
               ELSE unique_questions' = unique_questions]_vars
    /\ [][(Index /\ Len(questions) = 1 /\ store = <<>> /\ response' = "created")
            => /\ unique_questions' = <<questions[1]>>
               /\ duplicates' = 0
               /\ dpc' = "returned"]_vars
    /\ [](dpc = "returned"
            => /\ IsSubsequence(unique_questions, questions)
               /\ Len(unique_questions) + duplicates <= Len(questions))

\* a call of two records has returned: one insert answered 'created' and
\* the record is accepted, the other answered something else and the
\* record is in neither tally
C8_Witness ==
    /\ dpc = "returned"
    /\ Len(questions) = 2
    /\ inserts = <<1, 1>>
    /\ Len(unique_questions) = 1
    /\ duplicates = 0
    /\ response = "noop"

\* C9: a failure of the index query, of the embedding or of the insert for
\* one record never makes add_unique_questions raise to its caller.
C9_FailureNeverReachesCaller == dpc # "raised"

\* the index holds the record with the short text and nothing else
OnlyShortStored ==
    /\ store # <<>>
    /\ \A i \in 1..Len(store) : store[i].question_data = ShortText

\* C10 as stated: with the short text stored and visible, and the query
\* completing, the record with the longer text is counted as a duplicate
\* and the accepted list and the store are unchanged.
C10_LongerTextCountedAsDuplicate ==
    [][(/\ QuestionExists
        /\ questions[qi].question_data = LongText
        /\ OnlyShortStored
        /\ searchable = Len(store)
        /\ hits' >= 0)
        => /\ duplicates' = duplicates + 1
           /\ unique_questions' = unique_questions
           /\ store' = store]_vars

\* C10: with only the short text "What is a pointer in C?" stored, the
\* record with the text "What is a pointer in the C language?" is never
\* counted as a duplicate (the phrase query needs every term of the
\* submitted text in the stored one): the duplicate count is unchanged and
\* the record goes on to be embedded and inserted.
C10_LongerTextIsNotADuplicate ==
    [][(/\ QuestionExists
        /\ questions[qi].question_data = LongText
        /\ OnlyShortStored)
        => /\ duplicates' = duplicates
           /\ ~is_duplicate'
           /\ dpc' = "encode"]_vars

\* the longer text was looked up against the stored, visible short text,
\* the query completed with no hit, and the record is on its way to the
\* insert
C10_Witness ==
    /\ dpc = "encode"
    /\ questions[qi].question_data = LongText
    /\ OnlyShortStored
    /\ searchable = Len(store)
    /\ hits = 0
    /\ duplicates = 0

---------------------------------------------------------------------------
(* process_mcqs / perform_qc_with_claude of src/qc.py                      *)

MaxQC == 6      \* blocks in the file given to the QC pass: 0..MaxQC

QCBlockKinds == {"marked", "unmarked", "bare"}

\* the lines of a block after its stem
QCBody ==
    <<NL, "1", ")", SP, "a", NL, "2", ")", SP, "b", NL, "3", ")", SP, "c", NL,
      "4", ")", SP, "d", NL, CA, SP, "2", NL, DIFF, SP, "Easy", NL,
      "Subject:", SP, "S", NL, "Topic:", SP, "S", NL, "Sub-topic:", SP, "S",
      NL, TAGS, SP, "t1">>

\* the n-th block of the file: a question Q<n>., a note that starts with Q
\* and has no number, or a numbered stem with nothing after it
QCBlock(k, n) ==
    CASE k = "marked"   -> <<"Q", DigitOf(n), ".", SP, "S">> \o QCBody
      [] k = "unmarked" -> <<"Q", "uestions", SP, "see">>
      [] k = "bare"     -> <<"Q", DigitOf(n), ".", SP, "S">>

\* all blocks are questions, but for one at most
QCLayouts ==
    UNION {{[pre |-> pr, blocks |-> b] :
              pr \in {"none", "here"},
              b \in {f \in [1..n -> QCBlockKinds] :
                        Cardinality({i \in 1..n : f[i] # "marked"}) <= 1}} :
           n \in 0..MaxQC}

QCFileText(lay) ==
    PreText(lay.pre)
    \o str_join(<<NL>> \o Dashes \o <<NL>>,
                [i \in 1..Len(lay.blocks) |-> QCBlock(lay.blocks[i], i)])

\* the block with the number d, in place of its own when it has one
Renumber(q, d) ==
    IF QMarkerEnd(q, 1) # 0
    THEN <<"Q">> \o d \o <<".">> \o SubSeq(q, QMarkerEnd(q, 1), Len(q))
    ELSE <<"Q">> \o d \o <<".", SP>> \o q

\* What the reviewer answers for a batch: the blocks as sent, with or
\* without its report; one block fewer; one block more; the last block
\* under another number; or the blocks under the numbers the prompt lists
\* (line 144), in order, any further block under another number.
ReplyKinds ==
    {"same", "noreport", "dropped", "added", "renumbered", "as_prompted"}

ReplyBlocks(kind, batch, numbers) ==
    CASE kind \in {"same", "noreport"} -> batch
      [] kind = "dropped" -> SubSeq(batch, 1, Len(batch) - 1)
      [] kind = "added" -> Append(batch, QCBlock("marked", 9))
      [] kind = "renumbered" ->
            [j \in 1..Len(batch) |->
                IF j = Len(batch) THEN Renumber(batch[j], <<"9">>) ELSE batch[j]]
      [] kind = "as_prompted" ->
            [j \in 1..Len(batch) |->
                Renumber(batch[j],
                         IF j <= Len(numbers) THEN numbers[j] ELSE <<"9">>)]

ReplyText(kind, blocks) ==
    str_join(<<NL>> \o Dashes \o <<NL>>, blocks)
    \o (IF kind = "noreport" THEN <<NL>>
        ELSE <<NL>> \o Dashes \o <<NL, QCR, NL, "No issues found", NL>>)

InitQC ==
    /\ qc_layout \in QCLayouts
    /\ qc_input = QCFileText(qc_layout)
    /\ qc_questions = <<>> /\ question_numbers = <<>> /\ batch_start = 0
    /\ qc_replies = <<>>
    /\ all_corrected_mcqs = <<>> /\ all_qc_reports = <<>>
    /\ output_file = NoFile /\ log_file = NoFile
    /\ qc_result = NoResult /\ qpc = "ready"
    /\ IdleParser /\ IdleConvert /\ IdleDedup /\ IdleApp /\ IdleGen /\ IdleUpload /\ IdleLegacy
    /\ IdleY

\* the except of process_mcqs (lines 322-326)
Failed(message) == [success |-> FALSE, mcqs |-> <<>>, report |-> message]

\* lines 245-257 and 306-320: the results are written, then the corrected
\* text is verified
FinishQC(corrected, reports) ==
    LET corrected_mcqs == JoinCorrected(corrected)
    IN  /\ output_file' = [written |-> TRUE, text |-> corrected_mcqs]
        /\ log_file' = [written |-> TRUE, text |-> reports]
        /\ qc_result' =
              IF verify_mcq_format(corrected_mcqs)
              THEN [success |-> TRUE, mcqs |-> corrected_mcqs,
                    report |-> "report"]
              ELSE Failed("Generated MCQs do not follow the required format")
        /\ qpc' = "done"

\* process_mcqs up to the first request to the reviewer (lines 290-304 and
\* 93-112)
ProcessMcqs ==
    /\ qpc = "ready"
    /\ IF Strip(qc_input) = <<>> \/ ~verify_mcq_format(qc_input)
       THEN /\ qc_result' = Failed("Input MCQs do not follow the required format")
            /\ qpc' = "done"
            /\ UNCHANGED <<qc_questions, question_numbers, output_file,
                           log_file>>
       ELSE /\ qc_questions' = SplitBlocks(DropLeadingText(qc_input))
            /\ question_numbers' = QuestionNumbers(qc_questions')
            /\ IF qc_questions' = <<>>
               THEN FinishQC(<<>>, <<>>)
               ELSE /\ qpc' = "review"
                    /\ UNCHANGED <<output_file, log_file, qc_result>>
    /\ UNCHANGED <<qc_input, qc_layout, batch_start, qc_replies,
                   all_corrected_mcqs, all_qc_reports, pvars, cvars, dvars,
                   avars, gvars, uvars, lvars,
                   yvars>>

\* one turn of the loop of lines 114-243: the batch is sent, the request
\* raises or the reviewer answers, and the answer is validated
ReviewBatch ==
    /\ qpc = "review"
    /\ LET batch_questions == Slice(qc_questions, batch_start,
                                    batch_start + BATCH_SIZE)
           current_question_numbers == Slice(question_numbers, batch_start,
                                             batch_start + BATCH_SIZE)
       IN  \/ /\ qc_result' = Failed("request failed")
              /\ qpc' = "done"
              /\ UNCHANGED <<batch_start, qc_replies, all_corrected_mcqs,
                             all_qc_reports, output_file, log_file>>
           \/ \E kind \in ReplyKinds :
                LET blocks == ReplyBlocks(kind, batch_questions,
                                          current_question_numbers)
                    batch_response == Strip(ReplyText(kind, blocks))
                    response_questions ==
                        SplitBlocks(QuestionsPart(batch_response))
                IN  /\ qc_replies' = Append(qc_replies,
                            [sent |-> batch_questions, blocks |-> blocks])
                    /\ IF /\ CountMatches(response_questions,
                                          Len(batch_questions))
                          /\ NumbersMatch(response_questions,
                                          current_question_numbers)
                       THEN /\ all_corrected_mcqs' =
                                  all_corrected_mcqs \o response_questions
                            /\ all_qc_reports' =
                                  Append(all_qc_reports,
                                         BatchReport(batch_response))
                            /\ batch_start' = batch_start + BATCH_SIZE
                            /\ IF batch_start' >= Len(qc_questions)
                               THEN FinishQC(all_corrected_mcqs',
                                             all_qc_reports')
                               ELSE UNCHANGED <<output_file, log_file,
                                                qc_result, qpc>>
                       ELSE /\ qc_result' = Failed("batch rejected")
                            /\ qpc' = "done"
                            /\ UNCHANGED <<batch_start, all_corrected_mcqs,
                                           all_qc_reports, output_file,
                                           log_file>>
    /\ UNCHANGED <<qc_input, qc_layout, qc_questions, question_numbers,
                   pvars, cvars, dvars, avars, gvars, uvars, lvars,
                   yvars>>

NextQC == ProcessMcqs \/ ReviewBatch

SpecQC == InitQC /\ [][NextQC]_vars

---------------------------------------------------------------------------
(* Claims about the QC pass                                                *)

\* the digits of the marker the block starts with, <<>> when it starts
\* with none
LeadingOrdinal(q) ==
    IF QMarkerEnd(q, 1) # 0 THEN SubSeq(q, 2, QMarkerEnd(q, 1) - 2) ELSE <<>>

\* the reviewer returned as many blocks as were sent, each under the
\* ordinal of the sent block at its position
ReplyMatchesSent(r) ==
    /\ Len(r.blocks) = Len(r.sent)
    /\ \A j \in 1..Len(r.sent) :
          LeadingOrdinal(r.blocks[j]) = LeadingOrdinal(r.sent[j])

\* C11: when the reviewer's answer for some batch has another number of
\* blocks than was sent, or a block whose leading marker is not the
\* ordinal of the sent block at the same position, the pass has aborted:
\* process_mcqs returned (False, None, message), neither the output file
\* nor the log file was written, and the input file is as it was.
C11_MismatchedBatchAbortsPass ==
    (\E k \in 1..Len(qc_replies) : ~ReplyMatchesSent(qc_replies[k]))
    => /\ qpc = "done"
       /\ ~qc_result.success
       /\ qc_result.mcqs = <<>>
       /\ ~output_file.written
       /\ ~log_file.written
       /\ qc_input = QCFileText(qc_layout)

\* the blocks of the input file, as they were written
FileBlocks ==
    [i \in 1..Len(qc_layout.blocks) |-> QCBlock(qc_layout.blocks[i], i)]

RECURSIVE Concat(_)
Concat(ss) == IF ss = <<>> THEN <<>> ELSE Head(ss) \o Concat(Tail(ss))

\* C12: the batches sent are consecutive runs of at most BATCH_SIZE blocks
\* of the input, and once every batch has passed validation each input
\* block was sent in exactly one batch, the corrected text is the
\* reviewed blocks joined in order, and it has as many blocks as the
\* input, under the same ordinals in the same order.
C12_BatchesPartitionAndConcatenate ==
    LET sent     == Concat([k \in 1..Len(qc_replies) |-> qc_replies[k].sent])
        reviewed == Concat([k \in 1..Len(qc_replies) |->
                               qc_replies[k].blocks])
        out      == SplitBlocks(output_file.text)
    IN  /\ \A k \in 1..Len(qc_replies) :
              Len(qc_replies[k].sent) \in 1..BATCH_SIZE
        /\ Len(sent) <= Len(FileBlocks)
        /\ output_file.written
             => /\ sent = FileBlocks
                /\ output_file.text = JoinCorrected(reviewed)
                /\ Len(out) = Len(FileBlocks)
                /\ \A j \in 1..Len(out) :
                      LeadingOrdinal(out[j]) = LeadingOrdinal(FileBlocks[j])

---------------------------------------------------------------------------
(* src/mcq/app.py: the handler of the "Generate MCQs" button               *)

MaxQuestions == 2    \* num_questions: 1..MaxQuestions; generated blocks: 0..MaxQuestions + 1

InitApp ==
    /\ num_questions \in 1..MaxQuestions
    /\ app_steps = <<>> /\ raw_blocks = 0 /\ qc_success = "pending"
    /\ parsed_blocks = 0 /\ store_accesses = 0
    /\ app_json = 0 /\ app_unique = 0 /\ app_duplicates = 0
    /\ unique_mcqs_file = FALSE /\ apc = "ready"
    /\ IdleParser /\ IdleConvert /\ IdleDedup /\ IdleQC /\ IdleGen /\ IdleUpload /\ IdleLegacy
    /\ IdleY

\* the steps still to come are skipped
SkipRest == UNCHANGED <<parsed_blocks, store_accesses, app_json, app_unique,
                        app_duplicates, unique_mcqs_file>>

\* the success branch is entered whatever process_mcqs answered
ProceedAfterQC_Always(success) == TRUE

\* line 55: if success
ProceedAfterQC(success) == success = "success"

\* lines 42-44: generate_mcqs returns the text, which is saved, or raises
\* (the except of lines 97-101 ends the run)
GenerateStep ==
    /\ apc = "ready"
    /\ app_steps' = Append(app_steps, "generate")
    /\ \/ apc' = "error" /\ UNCHANGED raw_blocks
       \/ \E b \in 0..(MaxQuestions + 1) : raw_blocks' = b /\ apc' = "generated"
    /\ SkipRest
    /\ UNCHANGED <<num_questions, qc_success, pvars, cvars, dvars, qvars,
                   gvars, uvars, lvars,
                   yvars>>

\* lines 49-55 and 92-95: process_mcqs on the saved raw text
QCStep ==
    /\ apc = "generated"
    /\ app_steps' = Append(app_steps, "qc")
    /\ \E success \in {"success", "failure"} :
          /\ qc_success' = success
          /\ apc' = IF ProceedAfterQC(success) THEN "qc" ELSE "qc_failed"
    /\ SkipRest
    /\ UNCHANGED <<num_questions, raw_blocks, pvars, cvars, dvars, qvars,
                   gvars, uvars, lvars,
                   yvars>>

\* line 60: convert_to_json_format on the QC output with
\* expected_count = num_questions; it returns the records or raises
ConvertStep ==
    /\ apc = "qc"
    /\ app_steps' = Append(app_steps, "convert")
    /\ \/ apc' = "error" /\ UNCHANGED <<parsed_blocks, app_json>>
       \/ /\ parsed_blocks' = Min({raw_blocks, num_questions})
          /\ \E n \in 0..parsed_blocks' : app_json' = n
          /\ apc' = "converted"
    /\ UNCHANGED <<num_questions, raw_blocks, qc_success, store_accesses,
                   app_unique, app_duplicates, unique_mcqs_file,
                   pvars, cvars, dvars, qvars,
                   gvars, uvars, lvars,
                   yvars>>

\* line 65: add_unique_questions; one query for each record and an insert
\* for those not found; it returns its pair or raises
AddUniqueStep ==
    /\ apc = "converted"
    /\ app_steps' = Append(app_steps, "add_unique")
    /\ \E u \in 0..app_json : \E d \in 0..(app_json - u) :
          \/ /\ app_unique' = u /\ app_duplicates' = d
             /\ store_accesses' = app_json + (app_json - d)
             /\ apc' = "stored"
          \/ /\ u + d < app_json
             /\ store_accesses' = u + d + 1
             /\ apc' = "error"
             /\ UNCHANGED <<app_unique, app_duplicates>>
    /\ UNCHANGED <<num_questions, raw_blocks, qc_success, parsed_blocks,
                   app_json, unique_mcqs_file, pvars, cvars, dvars, qvars,
                   gvars, uvars, lvars,
                   yvars>>

\* lines 70-90: unique_mcqs.json is written and the results are shown
WriteStep ==
    /\ apc = "stored"
    /\ app_steps' = Append(app_steps, "write")
    /\ \/ unique_mcqs_file' = TRUE /\ apc' = "shown"
       \/ apc' = "error" /\ UNCHANGED unique_mcqs_file
    /\ UNCHANGED <<num_questions, raw_blocks, qc_success, parsed_blocks,
                   store_accesses, app_json, app_unique, app_duplicates,
                   pvars, cvars, dvars, qvars,
                   gvars, uvars, lvars,
                   yvars>>

NextApp == GenerateStep \/ QCStep \/ ConvertStep \/ AddUniqueStep \/ WriteStep

SpecApp == InitApp /\ [][NextApp]_vars

\* C13: the steps of a run are taken in the order generate, QC, convert,
\* add_unique_questions, write; and when generation raised or QC reported
\* failure no block is parsed, the duplicate store is not accessed and
\* unique_mcqs.json is not written.
C13_StepsInOrderAndGated ==
    /\ \E n \in 0..5 :
          app_steps = SubSeq(<<"generate", "qc", "convert", "add_unique",
                               "write">>, 1, n)
    /\ (apc = "error" /\ app_steps = <<"generate">>) \/ qc_success = "failure"
         => /\ parsed_blocks = 0
            /\ store_accesses = 0
            /\ ~unique_mcqs_file
            /\ Len(app_steps) <= 2

\* a whole run: every step taken, records stored, the file written
C13_Witness ==
    /\ apc = "shown"
    /\ app_steps = <<"generate", "qc", "convert", "add_unique", "write">>
    /\ unique_mcqs_file
    /\ parsed_blocks > 0 /\ store_accesses > 0

---------------------------------------------------------------------------
(* generate_mcqs: the retry loop around the generation request             *)

MaxRetries == 3     \* max_retries: 0..MaxRetries
RetryDelay == 2     \* seconds of time.sleep

Contents == {"mcqs A", "mcqs B"}

\* what a request can do: raise, answer without choices, answer with them
RequestOutcomes(call) ==
    {[kind |-> "request", call |-> call, outcome |-> o, content |-> ""] :
        o \in {"exception", "empty"}}
    \cup {[kind |-> "request", call |-> call, outcome |-> "choices",
           content |-> c] : c \in Contents}

Sleep(call) == [kind |-> "sleep", call |-> call, seconds |-> RetryDelay]

Variants == {"src/prompt.py", "src/mcq/prompt.py"}

\* src/mcq/prompt.py asks for a meta-sorting plan first (lines 143-162),
\* src/prompt.py goes straight to the generation request
FirstPhase(v) == IF v = "src/mcq/prompt.py" THEN "meta" ELSE "generation"

\* src/mcq/prompt.py lines 72-73
ValidDifficulties == {"Easy", "Medium", "Hard"}
ValidQuestionTypes ==
    {"Conceptual", "Factual", "Problem-solving", "Scenario-based"}

\* the arguments tried: valid ones, a question type that src/prompt.py has
\* no definitions for, and invalid ones
Difficulties == {"Easy", "Extreme"}
QuestionTypes == {"Conceptual", "Scenario-based", "Essay"}

\* no check of the arguments
InputsAccepted_Unchecked(v, d, t) == TRUE

\* src/mcq/prompt.py lines 75-81: the ValueError for an argument that is
\* not in the lists; src/prompt.py lines 230-255: the KeyError of the
\* look-up in difficulty_definitions, which has three question types
InputsAccepted(v, d, t) ==
    IF v = "src/mcq/prompt.py"
    THEN d \in ValidDifficulties /\ t \in ValidQuestionTypes
    ELSE d \in ValidDifficulties
         /\ t \in {"Conceptual", "Factual", "Problem-solving"}

InitGen ==
    /\ variant \in Variants
    /\ difficulty \in Difficulties
    /\ question_type \in QuestionTypes
    /\ phase = FirstPhase(variant)
    /\ max_retries \in 0..MaxRetries
    /\ attempt = 0 /\ gen_events = <<>> /\ gen_result = "" /\ gpc = "ready"
    /\ IdleParser /\ IdleConvert /\ IdleDedup /\ IdleQC /\ IdleApp
    /\ IdleUpload /\ IdleLegacy
    /\ IdleY

\* one attempt more than asked for
MoreAttempts_OneMore(a, m) == a <= m

\* for attempt in range(max_retries)
MoreAttempts(a, m) == a < m

\* lines 284-285 (241-242, 159-160): the delay, taken in the except
\* branch only
DelayAfter(r, a, m) ==
    IF r.outcome = "exception" /\ a < m - 1 THEN <<Sleep(r.call)>> ELSE <<>>

\* the call, up to the first loop; with no attempt to make the loop is
\* over and the raise after it is taken
GenerateMcqs ==
    /\ gpc = "ready"
    /\ gpc' = IF ~InputsAccepted(variant, difficulty, question_type)
              THEN "rejected"
              ELSE IF MoreAttempts(0, max_retries) THEN "loop" ELSE "raised"
    /\ UNCHANGED <<variant, phase, max_retries, attempt, gen_events,
                   gen_result, difficulty, question_type, pvars, cvars, dvars, qvars, avars,
                   uvars, lvars,
                   yvars>>

\* one turn of the meta-sorting loop (src/mcq/prompt.py lines 143-162): a
\* response with choices breaks out to the generation loop
MetaAttempt ==
    /\ gpc = "loop" /\ phase = "meta"
    /\ \E r \in RequestOutcomes("meta") :
          /\ gen_events' = Append(gen_events, r)
                             \o (IF r.outcome = "choices" THEN <<>>
                                 ELSE DelayAfter(r, attempt, max_retries))
          /\ IF r.outcome = "choices"
             THEN /\ phase' = "generation"
                  /\ attempt' = 0
                  /\ UNCHANGED gpc
             ELSE /\ attempt' = attempt + 1
                  /\ gpc' = IF MoreAttempts(attempt', max_retries)
                            THEN "loop" ELSE "raised"
                  /\ UNCHANGED phase
    /\ UNCHANGED <<variant, max_retries, gen_result, difficulty,
                   question_type, pvars, cvars, dvars, qvars, avars,
                   uvars, lvars,
                   yvars>>

\* one turn of the generation loop (lines 269-285, 226-242): the request,
\* then the return, or the logging and the delay; after the last turn, the
\* raise of line 287 (244)
Attempt ==
    /\ gpc = "loop" /\ phase = "generation"
    /\ \E r \in RequestOutcomes("generation") :
          /\ gen_events' = Append(gen_events, r)
                             \o (IF r.outcome = "choices" THEN <<>>
                                 ELSE DelayAfter(r, attempt, max_retries))
          /\ IF r.outcome = "choices"
             THEN /\ gen_result' = r.content
                  /\ gpc' = "returned"
                  /\ UNCHANGED attempt
             ELSE /\ attempt' = attempt + 1
                  /\ gpc' = IF MoreAttempts(attempt', max_retries)
                            THEN "loop" ELSE "raised"
                  /\ UNCHANGED gen_result
    /\ UNCHANGED <<variant, phase, max_retries, difficulty, question_type,
                   pvars, cvars, dvars, qvars, avars,
                   uvars, lvars,
                   yvars>>

NextGen == GenerateMcqs \/ MetaAttempt \/ Attempt

SpecGenerate == InitGen /\ [][NextGen]_vars

\* a request returns or raises, and the delay ends: the loop goes on
SpecGenerateLive == SpecGenerate /\ WF_vars(NextGen)

---------------------------------------------------------------------------
(* Claims about generate_mcqs                                              *)

\* the requests of the generation call, and its requests and delays
Requests ==
    SelectSeq(gen_events,
              LAMBDA e : e.kind = "request" /\ e.call = "generation")
GenerationEvents == SelectSeq(gen_events, LAMBDA e : e.call = "generation")

\* C14: generate_mcqs issues at most max_retries requests; it returns the
\* content of the first response that has choices, which is its last
\* request; it raises once max_retries requests have all failed or come
\* back empty; and it always ends, returning or raising (for arguments it
\* does not accept, raising before the loop).
C14_BoundedRetriesThenRaise ==
    /\ [](/\ Len(Requests) <= max_retries
          /\ \A i \in 1..Len(Requests) :
                Requests[i].outcome = "choices"
                => /\ i = Len(Requests)
                   /\ gpc = "returned"
                   /\ gen_result = Requests[i].content
          /\ gpc = "returned"
               => /\ Requests # <<>>
                  /\ Requests[Len(Requests)].outcome = "choices"
          /\ gpc = "raised" /\ phase = "generation"
               => /\ Len(Requests) = max_retries
                  /\ \A i \in 1..Len(Requests) :
                        Requests[i].outcome # "choices")
    /\ <>(gpc \in {"returned", "raised", "rejected"})

\* three requests, one raising and one empty among them, then the raise
C14_Witness ==
    /\ gpc = "raised"
    /\ max_retries = 3
    /\ Len(Requests) = 3
    /\ \E i, j \in 1..3 : /\ Requests[i].outcome = "exception"
                           /\ Requests[j].outcome = "empty"

\* C18: between every two consecutive requests of generate_mcqs there is
\* one delay of RetryDelay seconds, whether the earlier one raised or came
\* back empty, and no delay follows the last request.
C18_FixedDelayBetweenAttempts ==
    LET ev == GenerationEvents
    IN  /\ \A i \in 1..(Len(ev) - 1) :
              ev[i].kind = "request" => ev[i + 1] = Sleep("generation")
        /\ \A i \in 2..Len(ev) :
              ev[i].kind = "sleep" => ev[i - 1].kind = "request"
        /\ gpc \in {"returned", "raised"} /\ ev # <<>>
             => ev[Len(ev)].kind = "request"

---------------------------------------------------------------------------
(* src/api_handler.py: the upload of the records of a file                 *)

MaxUpload == 3     \* records in the uploaded file: 0..MaxUpload

\* the records of the uploaded file: records of unique_mcqs.json as the
\* store accepted them (with the vector and the creator id of the
\* conversion; tags can be empty), a record that already has a qb_id, and
\* a record with neither vector nor ids
UploadRecords ==
    {[id |-> "q1", tags |-> <<>>, question_vector |-> "v", createdBy |-> CreatedBy],
     [id |-> "q2", tags |-> <<"t1">>, question_vector |-> "v", createdBy |-> CreatedBy],
     [id |-> "q3", tags |-> <<"t1">>, question_vector |-> "v", qb_id |-> "old"],
     [id |-> "q4", tags |-> <<>>]}

\* dict.pop(key, None)
Pop(d, key) == [k \in DOMAIN d \ {key} |-> d[k]]

\* d[key] = value
SetItem(d, key, value) ==
    [k \in DOMAIN d \cup {key} |-> IF k = key THEN value ELSE d[k]]

\* the qb_id of the file record is kept when it has one
QuestionToPost_KeepQb(question, qb) ==
    LET a == Pop(question, "question_vector")
        b == IF "qb_id" \in DOMAIN a THEN a ELSE SetItem(a, "qb_id", qb)
    IN  IF b.tags = <<>> THEN SetItem(b, "tags", <<"">>) ELSE b

\* lines 61-65 (131-135): the posted record is a copy of the file record
\* without its vector, with qb_id set to the argument, and with a tags
\* list that is not empty
QuestionToPost(question, qb) ==
    LET a == Pop(question, "question_vector")
        b == SetItem(a, "qb_id", qb)
    IN  IF b.tags = <<>> THEN SetItem(b, "tags", <<"">>) ELSE b

\* a failed POST is not counted
CountFailure_Forgotten(failed) == failed

\* line 73 (143)
CountFailure(failed) == failed + 1

InitUpload ==
    /\ service \in {"import_mcqs_to_examly", "import_mcqs_to_neowise"}
    /\ upload_file \in UNION {[1..n -> UploadRecords] : n \in 0..MaxUpload}
    /\ upload_qb = "qb"
    /\ posts = <<>> /\ successful_uploads = 0 /\ failed_uploads = 0
    /\ upc = "ready"
    /\ IdleParser /\ IdleConvert /\ IdleDedup /\ IdleQC /\ IdleApp
    /\ IdleGen /\ IdleLegacy
    /\ IdleY

\* lines 43-58 (113-128): the file is read and the counters are set
ImportMcqs ==
    /\ upc = "ready"
    /\ upc' = IF upload_file = <<>> THEN "returned" ELSE "loop"
    /\ UNCHANGED <<service, upload_file, upload_qb, posts,
                   successful_uploads, failed_uploads,
                   pvars, cvars, dvars, qvars, avars, gvars,
                   lvars,
                   yvars>>

\* one turn of the loop (lines 60-73, 130-143): the POST succeeds, or
\* raises a RequestException (no connection, time-out, error status);
\* after the last record the function returns (line 75, 145)
Post ==
    /\ upc = "loop"
    /\ LET question == upload_file[Len(posts) + 1]
       IN  \E outcome \in {"ok", "connection error", "error status"} :
             /\ posts' = Append(posts,
                     [body |-> QuestionToPost(question, upload_qb),
                      outcome |-> outcome])
             /\ IF outcome = "ok"
                THEN /\ successful_uploads' = successful_uploads + 1
                     /\ UNCHANGED failed_uploads
                ELSE /\ failed_uploads' = CountFailure(failed_uploads)
                     /\ UNCHANGED successful_uploads
    /\ upc' = IF Len(posts') = Len(upload_file) THEN "returned" ELSE "loop"
    /\ UNCHANGED <<service, upload_file, upload_qb,
                   pvars, cvars, dvars, qvars, avars, gvars,
                   lvars,
                   yvars>>

NextUpload == ImportMcqs \/ Post

SpecUpload == InitUpload /\ [][NextUpload]_vars

\* C15: the POSTs issued are one for each record of the file, in file
\* order, none repeated; each failed POST is counted as failed and the
\* records after it are still posted; on return
\* successful_uploads + failed_uploads is the number of records.
C15_OnePostPerRecord ==
    /\ Len(posts) <= Len(upload_file)
    /\ \A i \in 1..Len(posts) :
          posts[i].body = QuestionToPost(upload_file[i], upload_qb)
    /\ successful_uploads =
          Cardinality({i \in 1..Len(posts) : posts[i].outcome = "ok"})
    /\ failed_uploads =
          Cardinality({i \in 1..Len(posts) : posts[i].outcome # "ok"})
    /\ upc = "returned"
         => /\ Len(posts) = Len(upload_file)
            /\ successful_uploads + failed_uploads = Len(upload_file)

\* three records, the first POST failed, the later ones were still issued
\* and one of them succeeded
C15_Witness ==
    /\ upc = "returned"
    /\ Len(upload_file) = 3
    /\ Len(posts) = 3
    /\ posts[1].outcome # "ok"
    /\ posts[3].outcome = "ok"
    /\ failed_uploads >= 1 /\ successful_uploads >= 1

---------------------------------------------------------------------------
(* src/convertor.py: the legacy convert_to_json_format                     *)

\* line 37: Q\d+\.\s*(.*?)(?=\n```|\n1\)|\Z) tried at position i; the end
\* of the text is a lookahead position, so the white space is never given
\* back
LegacyQuestionMatchAt(t, i) ==
    LET s == QMarkerEnd(t, i)
    IN  IF s = 0 THEN NoMatch
        ELSE LET w == RunEnd(t, s, Space)
                 A == {j \in w..(Len(t) + 1) :
                          j = Len(t) + 1 \/ StemLookahead(t, j)}
             IN  Match(i, Min(A) - 1, w, Min(A) - 1)

legacy_question_match(t) ==
    LET I == {i \in 1..Len(t) : LegacyQuestionMatchAt(t, i).ok}
    IN  IF I = {} THEN NoMatch ELSE LegacyQuestionMatchAt(t, Min(I))

\* lines 18-20: re.split(r'(?=Q\d+\.)', content), empty pieces dropped
LegacySplit(content) ==
    LET P      == {i \in 1..Len(content) : QMarkerEnd(content, i) # 0}
        pieces == SplitAt(content, P, 1)
        kept   == SelectSeq(pieces, LAMBDA q : Strip(q) # <<>>)
    IN  [i \in 1..Len(kept) |-> Strip(kept[i])]

\* lines 25-28 and 118-120: list[:expected_count] when the count differs
LegacyTruncate(xs, expected) ==
    IF expected # 0 /\ Len(xs) # expected
    THEN SubSeq(xs, 1, Min({expected, Len(xs)}))
    ELSE xs

\* lines 35-115 for one block: the record, or None where the loop
\* continues without one.  The options are looked for in the whole block
\* and there is no check of the answer number: options[correct_answer]
\* either picks an option or raises the IndexError that line 112 catches.
LegacyParse(question, qb, cb) ==
    LET qm == legacy_question_match(question)
    IN  IF ~qm.ok THEN None("No match for question text", 0)
        ELSE
        LET question_text == Strip(Group(question, qm))
            cm            == code_match(question)
            code_block    == IF cm.ok THEN Strip(Group(question, cm)) ELSE <<>>
            question_data == <<"<p>">> \o question_text \o <<"</p>">>
                             \o (IF code_block # <<>>
                                 THEN <<NL, "$$$examly">> \o code_block
                                 ELSE <<>>)
            options       == FindOptions(question, 1)
        IN  IF Len(options) # 4
            THEN None("Found n options instead of 4", Len(options))
            ELSE
            LET cam == correct_match(question)
            IN  IF ~cam.ok THEN None("No correct answer found", 0)
                ELSE
                LET correct_answer == IntOf(question, cam.a, cam.b) - 1
                    r == BuildRecord(question_data, options, correct_answer,
                                     code_block, question)
                    j == ("createdBy" :> cb) @@ r
                IN  IF IsNone(r) THEN r
                    ELSE IF qb # "None" THEN ("qb_id" :> qb) @@ j ELSE j

\* lines 13-123
legacy_convert_to_json_format(content, qb, cb, expected) ==
    LET qs   == LegacyTruncate(LegacySplit(content), expected)
        outs == [i \in 1..Len(qs) |-> LegacyParse(qs[i], qb, cb)]
    IN  LegacyTruncate(SelectSeq(outs, LAMBDA r : ~IsNone(r)), expected)

InitLegacy ==
    /\ legacy_shape \in Shapes
    /\ legacy_file = BlockText(legacy_shape)
    /\ legacy_expected \in {0, 1}
    /\ legacy_json = <<>>
    /\ lpc = "ready"
    /\ IdleParser /\ IdleConvert /\ IdleDedup /\ IdleQC /\ IdleApp
    /\ IdleGen /\ IdleUpload /\ IdleY

LegacyConvert ==
    /\ lpc = "ready"
    /\ legacy_json' = legacy_convert_to_json_format(legacy_file, "None",
                                                    CreatedBy,
                                                    legacy_expected)
    /\ lpc' = "done"
    /\ UNCHANGED <<legacy_file, legacy_shape, legacy_expected,
                   pvars, cvars, dvars, qvars, avars, gvars, uvars, yvars>>

NextLegacy == LegacyConvert

SpecLegacy == InitLegacy /\ [][NextLegacy]_vars

\* C16: every record the legacy converter emits comes from a block whose
\* answer line holds a number N in 1..4, and its answer.args is the text
\* of option N; a block with another number (0 included) gives no record.
C16_LegacyRejectsAnswerOutOfRange ==
    \A i \in 1..Len(legacy_json) :
        /\ legacy_shape.anskind = "num"
        /\ legacy_shape.ans \in 1..4
        /\ legacy_json[i].answer.args =
              <<legacy_json[i].options[legacy_shape.ans].text>>

---------------------------------------------------------------------------
(* Claims about the comparison key                                         *)

\* the index holds a record with the same comparison key as this one and
\* another code snippet or other options
SameStemStored(question) ==
    \E i \in 1..Len(store) :
        /\ ComparisonKey(store[i].question_data) =
              ComparisonKey(question.question_data)
        /\ \/ store[i].question_data # question.question_data
           \/ store[i].options # question.options

\* C17: the duplicate decision depends only on the comparison key: a
\* record submitted after a record with the same stem and another code
\* snippet or other options was stored is counted as a duplicate and does
\* not go on to be stored.
C17_SameStemIsDuplicate ==
    [][(QuestionExists /\ SameStemStored(questions[qi]))
        => /\ is_duplicate'
           /\ duplicates' = duplicates + 1
           /\ dpc' # "encode"]_vars

---------------------------------------------------------------------------
(* Claims about the stem and the code of a parsed block                    *)

\* C19: extract_question_components returns None for a block whose
\* Q<N>. marker is followed directly by the code fence or by the first
\* option with no stem text in between, and no record whose question_data
\* begins with the empty paragraph <p></p> is ever emitted.
C19_MissingStemGivesNone ==
    ppc = "done" =>
        /\ shape.stem = "none" => IsNone(parsed)
        /\ ~IsNone(parsed) =>
              SubSeq(parsed.question_data, 1, 2) # <<"<p>", "</p>">>

\* the layout has a language-tagged fenced block
HasTaggedCode(sh) ==
    \/ sh.code \in {"tagged", "blank", "dashes"}
    \/ sh.optkind = "code" /\ sh.nopts >= 1

\* the trimmed text inside the first language-tagged fenced block of a
\* layout (empty when there is none or when it holds white space only)
CodeBody(sh) ==
    CASE sh.code = "tagged" -> <<"x">>
      [] sh.code = "dashes" -> <<"x", "-", "-", "-", "x">>
      [] sh.code = "blank"  -> <<>>
      [] OTHER -> IF HasTaggedCode(sh) THEN <<"y">> ELSE <<>>

Paragraph(sh) == <<"<p>">> \o Strip(StemText(sh.stem)) \o <<"</p>">>

---------------------------------------------------------------------------
(* Claims about the option texts                                           *)

\* C21: in every emitted record each option text is the text of its entry
\* with the Markdown emphasis markers and the stray code fences removed:
\* no option text of a record holds a fence or an emphasis marker.
C21_OptionTextHasNoMarkup ==
    (ppc = "done" /\ ~IsNone(parsed)) =>
        \A i \in 1..Len(parsed.options) :
            \A j \in 1..Len(parsed.options[i].text) :
                parsed.options[i].text[j] \notin {FENCE, EM}

\* the trimmed text of the fenced block written between the stem and the
\* first option, when it is language-tagged and not blank
OwnCode(sh) ==
    CASE sh.code = "tagged" -> <<"x">>
      [] sh.code = "dashes" -> <<"x", "-", "-", "-", "x">>
      [] OTHER              -> <<>>

\* what follows the separator in question_data (empty without separator)
Snippet(qd) ==
    LET I == {i \in 1..Len(qd) : qd[i] = "$$$examly"}
    IN  IF I = {} THEN <<>> ELSE SubSeq(qd, Min(I) + 1, Len(qd))

\* C27: the snippet that extract_question_components places in
\* question_data is the fenced block between the stem and the first
\* option; a language-tagged fenced block inside an option's text is never
\* taken as the snippet, and every option text of the record is the text
\* of its entry, unchanged by the extraction of the snippet.
C27_SnippetIsTheQuestionsOwn ==
    (ppc = "done" /\ ~IsNone(parsed)) =>
        /\ Snippet(parsed.question_data) = OwnCode(shape)
        /\ \A i \in 1..Len(parsed.options) :
              parsed.options[i].text = Strip(OptionText(i, shape.optkind))

---------------------------------------------------------------------------
(* Claims about the bank id and the creator id                             *)

\* C22: the records returned by the conversion step (the call of
\* src/mcq/app.py line 60) carry neither a bank id (qb_id) nor a creator
\* id (createdBy); both are left to the upload step.
C22_ConvertedRecordsHaveNoIds ==
    cpc = "done" =>
        \A i \in 1..Len(json_questions) :
            /\ "qb_id" \notin DOMAIN json_questions[i]
            /\ "createdBy" \notin DOMAIN json_questions[i]

---------------------------------------------------------------------------
(* Claims about the posted records                                         *)

\* C29: every record POSTed by import_mcqs_to_examly or
\* import_mcqs_to_neowise has qb_id equal to the bank id argument, whatever
\* qb_id the file record has, has no question_vector field even when the
\* file record has one, and has a tags list that is not empty (the list
\* of one empty text when the file record's tags are empty); its other
\* fields are those of the file record, and the file is not modified.
C29_PostedRecordIsNormalised ==
    /\ [](\A i \in 1..Len(posts) :
            LET body == posts[i].body
                rec  == upload_file[i]
            IN  /\ body.qb_id = upload_qb
                /\ "question_vector" \notin DOMAIN body
                /\ body.tags # <<>>
                /\ rec.tags = <<>> => body.tags = <<"">>
                /\ rec.tags # <<>> => body.tags = rec.tags
                /\ \A k \in DOMAIN rec \ {"question_vector", "qb_id", "tags"} :
                      k \in DOMAIN body /\ body[k] = rec[k])
    /\ [][upload_file' = upload_file]_vars

\* a file record with a vector and another qb_id was posted with the
\* argument's qb_id, and a record with empty tags was posted too
C29_Witness ==
    /\ upc = "returned"
    /\ \E i \in 1..Len(posts) :
          /\ "qb_id" \in DOMAIN upload_file[i]
          /\ upload_file[i].qb_id # upload_qb
          /\ "question_vector" \in DOMAIN upload_file[i]
          /\ posts[i].body.qb_id = upload_qb
    /\ \E i \in 1..Len(posts) :
          upload_file[i].tags = <<>> /\ posts[i].body.tags = <<"">>

---------------------------------------------------------------------------
(* Further claims about the QC pass of src/qc.py                           *)

\* C26: in perform_qc_with_claude the list of expected ordinals stays
\* aligned with the list of blocks: it is as long as the block list and
\* its j-th entry is the number in the leading marker of the j-th block,
\* so that the slices taken for a batch pair each sent block with its own
\* ordinal.
C26_OrdinalsAlignedWithBlocks ==
    /\ Len(question_numbers) = Len(qc_questions)
    /\ \A j \in 1..Len(qc_questions) :
          /\ j <= Len(question_numbers)
          /\ question_numbers[j] = LeadingOrdinal(qc_questions[j])

\* C28: whenever process_mcqs returns success = False, neither the output
\* file nor the QC log file was written during the call.
C28_FailureWritesNoFile ==
    (qpc = "done" /\ ~qc_result.success) =>
        ~output_file.written /\ ~log_file.written

---------------------------------------------------------------------------
(* Claims about failed searches                                            *)

\* C24: add_unique_questions issues the insert for a record only after the
\* duplicate search for it completed with zero hits (a search that failed
\* never leads to the insert), and the store never holds two records with
\* the same comparison key.
C24_InsertOnlyAfterCompletedSearch ==
    /\ [][Index => hits = 0]_vars
    /\ [](\A i, j \in 1..Len(store) :
            i # j => ComparisonKey(store[i].question_data)
                       # ComparisonKey(store[j].question_data))

---------------------------------------------------------------------------
(* Claims about the meta-sorting plan                                      *)

\* the requests of a call, of both kinds
AllRequests == SelectSeq(gen_events, LAMBDA e : e.kind = "request")

\* the position of the request that brought the meta-sorting plan, 0
\* when no request did
PlanAt ==
    LET I == {i \in 1..Len(gen_events) :
                 /\ gen_events[i].kind = "request"
                 /\ gen_events[i].call = "meta"
                 /\ gen_events[i].outcome = "choices"}
    IN  IF I = {} THEN 0 ELSE Min(I)

\* C30: in generate_mcqs of src/mcq/prompt.py every generation request
\* comes after the request that brought the meta-sorting plan; when all
\* max_retries plan requests failed or came back empty the call has
\* raised with no generation request issued; a call issues at most
\* 2 * max_retries requests; and for a difficulty or a question type that
\* is not valid the call raises with no request issued.
C30_NoGenerationWithoutPlan ==
    variant = "src/mcq/prompt.py" =>
        /\ \A i \in 1..Len(gen_events) :
              (gen_events[i].kind = "request" /\ gen_events[i].call = "generation")
                  => PlanAt # 0 /\ PlanAt < i
        /\ (PlanAt = 0 /\ gpc \notin {"ready", "loop"})
              => /\ gpc \in {"raised", "rejected"}
                 /\ Requests = <<>>
                 /\ gpc = "raised" => Len(AllRequests) = max_retries
        /\ Len(AllRequests) <= 2 * max_retries
        /\ (difficulty \notin ValidDifficulties
               \/ question_type \notin ValidQuestionTypes)
              => /\ gen_events = <<>>
                 /\ gpc \in {"ready", "rejected"}

\* three plan requests failed or came back empty and the call raised
\* without a generation request
C30_Witness ==
    /\ variant = "src/mcq/prompt.py" /\ gpc = "raised" /\ phase = "meta"
    /\ max_retries = 3 /\ Len(AllRequests) = 3 /\ Requests = <<>>
    /\ \E i \in 1..Len(gen_events) : gen_events[i].outcome = "empty"

---------------------------------------------------------------------------
(* src/mcq/qc.py: the review of the questions one by one                   *)

MaxReview == 2     \* blocks in the reviewed file: 0..MaxReview

\* lines 168-169: f.read().split('---'), stripped, the empty pieces
\* dropped
ReadQuestions(text) ==
    LET kept == SelectSeq(str_split(text, Dashes, 1),
                          LAMBDA q : Strip(q) # <<>>)
    IN  [i \in 1..Len(kept) |-> Strip(kept[i])]

\* str.endswith
EndsWith(t, p) ==
    Len(t) >= Len(p) /\ SubSeq(t, Len(t) - Len(p) + 1, Len(t)) = p

\* What the validator gives for a question: it raises; its result has no
\* valid_question; or valid_question is the question as sent, the question
\* under another number, the question after a line of introduction, a
\* text without a marker and without a full stop, the question followed by
\* the separator, or the question followed by the separator and a second
\* question.
ValidatorKinds ==
    {"raise", "empty", "same", "renumbered", "preamble", "nodot", "with_sep",
     "two"}

ValidQuestion(kind, question) ==
    CASE kind = "same"       -> question
      [] kind = "renumbered" -> Renumber(question, <<"9">>)
      [] kind = "preamble"   -> <<"Here", NL>> \o question
      [] kind = "nodot"      -> <<"S", "?">>
      [] kind = "with_sep"   -> question \o <<NL>> \o Dashes
      [] kind = "two"        -> question \o <<NL>> \o Dashes \o <<NL>>
                                \o QCBlock("marked", 9)
      [] OTHER               -> <<>>

\* MCQProcessor.forward, lines 139-161: <<the block, the feedback>>.  The
\* IndexError of split('.', 1)[1] on a text without a full stop is caught
\* by line 159, like an exception of the validator.
forward(question, kind) ==
    LET digits == MarkerDigits(question)
        q_num  == IF digits # <<>> THEN digits ELSE <<"1">>
        marker == <<"Q">> \o q_num \o <<".">>
        valid_question == ValidQuestion(kind, question)
        parts  == str_split(valid_question, <<".">>, 1)
    IN  IF kind = "raise" THEN <<question, "Processing error">>
        ELSE IF valid_question = <<>>
        THEN <<question, "Validation failed: incomplete result">>
        ELSE IF IsAt(valid_question, 1, marker)
        THEN <<valid_question, "feedback">>
        ELSE IF Len(parts) < 2 THEN <<question, "Processing error">>
        ELSE <<marker \o SubSeq(valid_question, Len(parts[1]) + 2,
                                Len(valid_question)),
               "feedback">>

ReviewLayouts == UNION {[1..n -> QCBlockKinds] : n \in 0..MaxReview}

ReviewFileText(lay) ==
    str_join(<<NL>> \o Dashes \o <<NL>>,
             [i \in 1..Len(lay) |-> QCBlock(lay[i], i)])

InitReview ==
    /\ \E lay \in ReviewLayouts : \E r \in BOOLEAN :
          rv_input = [readable |-> r, text |-> ReviewFileText(lay)]
    /\ rv_questions = <<>> /\ processed_questions = <<>>
    /\ feedback_list = <<>> /\ rv_output = NoFile /\ rv_log = NoFile
    /\ rv_result = "none" /\ rpc = "ready"
    /\ IdleParser /\ IdleConvert /\ IdleDedup /\ IdleQC /\ IdleApp
    /\ IdleGen /\ IdleUpload /\ IdleLegacy /\ IdleConc

\* lines 165-174: the file is read and cut; a file that cannot be read
\* ends the call with failure (lines 212-214)
ReviewStart ==
    /\ rpc = "ready"
    /\ IF rv_input.readable
       THEN /\ rv_questions' = ReadQuestions(rv_input.text)
            /\ rpc' = IF rv_questions' = <<>> THEN "write" ELSE "loop"
            /\ UNCHANGED rv_result
       ELSE /\ rv_result' = "failure"
            /\ rpc' = "returned"
            /\ UNCHANGED rv_questions
    /\ UNCHANGED <<rv_input, processed_questions, feedback_list, rv_output,
                   rv_log, pvars, cvars, dvars, qvars, avars, gvars, uvars,
                   lvars, kvars>>

\* one turn of the loop of lines 177-194
ReviewQuestion ==
    /\ rpc = "loop"
    /\ \E kind \in ValidatorKinds :
          LET q        == rv_questions[Len(processed_questions) + 1]
              answer   == forward(q, kind)
              valid_q  == IF EndsWith(answer[1], Dashes) THEN answer[1]
                          ELSE answer[1] \o <<NL>> \o Dashes
          IN  /\ processed_questions' = Append(processed_questions, valid_q)
              /\ feedback_list' = Append(feedback_list, answer[2])
    /\ rpc' = IF Len(processed_questions') = Len(rv_questions)
              THEN "write" ELSE "loop"
    /\ UNCHANGED <<rv_input, rv_questions, rv_output, rv_log, rv_result,
                   pvars, cvars, dvars, qvars, avars, gvars, uvars, lvars, kvars>>

\* lines 196-210: the blocks are joined and written, the report is
\* written, and the call returns True; a file that cannot be written ends
\* the call with failure (lines 212-214)
ReviewWrite ==
    /\ rpc = "write"
    /\ LET corrected_mcqs == str_join(<<NL, NL>>, processed_questions)
       IN  \/ /\ rv_output' = [written |-> TRUE, text |-> corrected_mcqs]
              /\ rv_log' = [written |-> TRUE, text |-> feedback_list]
              /\ rv_result' = "success"
           \/ /\ rv_output' = [written |-> TRUE, text |-> corrected_mcqs]
              /\ rv_result' = "failure"
              /\ UNCHANGED rv_log
           \/ /\ rv_result' = "failure"
              /\ UNCHANGED <<rv_output, rv_log>>
    /\ rpc' = "returned"
    /\ UNCHANGED <<rv_input, rv_questions, processed_questions,
                   feedback_list, pvars, cvars, dvars, qvars, avars, gvars,
                   uvars, lvars, kvars>>

NextReview == ReviewStart \/ ReviewQuestion \/ ReviewWrite

SpecReview == InitReview /\ [][NextReview]_vars

\* C23: the per-question QC pass outputs one reviewed block for each input
\* block, in input order: the output text, read back block by block, has
\* as many blocks as the input; each output block that came from an input
\* block starting with Q<N>. starts with the same marker and ends with the
\* separator; and a failure of the reviewer on a block keeps that block
\* and neither fails nor shortens the run.
C23_OneReviewedBlockPerInputBlock ==
    /\ Len(processed_questions) <= Len(rv_questions)
    /\ \A i \in 1..Len(processed_questions) :
          /\ EndsWith(processed_questions[i], Dashes)
          /\ LeadingOrdinal(rv_questions[i]) # <<>>
                => LeadingOrdinal(processed_questions[i])
                     = LeadingOrdinal(rv_questions[i])
          /\ feedback_list[i] # "feedback"
                => processed_questions[i] = rv_questions[i] \o <<NL>> \o Dashes
    /\ rv_result = "success"
          => /\ Len(processed_questions) = Len(rv_questions)
             /\ Len(ReadQuestions(rv_output.text)) = Len(rv_questions)

---------------------------------------------------------------------------
(* src/mcq/db.py: add_unique_questions from sessions that share the        *)
(* module-level question_bank (lines 155-160)                              *)

NumSessions == 2     \* sessions calling at the same time: 1..NumSessions

Sessions == 1..NumSessions

\* each session submits one record; the index is empty
InitConc ==
    /\ kstore = <<>> /\ ksearchable = 0
    /\ kquestion \in [Sessions -> {Question(k) : k \in {"short", "shortcode", "long"}}]
    /\ khits = [s \in Sessions |-> 0]
    /\ kunique = [s \in Sessions |-> <<>>]
    /\ kduplicates = [s \in Sessions |-> 0]
    /\ kpc = [s \in Sessions |-> "search"]
    /\ IdleParser /\ IdleConvert /\ IdleDedup /\ IdleQC /\ IdleApp
    /\ IdleGen /\ IdleUpload /\ IdleLegacy /\ IdleReview

\* lines 73-80 and 92-95 in session s: the look-up of the record's key
ConcSearch(s) ==
    /\ kpc[s] = "search"
    /\ \E query_ok \in BOOLEAN :
          LET question_text == ComparisonKey(kquestion[s].question_data)
              docs == SubSeq(kstore, 1, ksearchable)
              is_dup == question_exists(docs, question_text, query_ok)
          IN  /\ khits' = [khits EXCEPT ![s] =
                              IF query_ok
                              THEN Cardinality(Hits(docs, question_text))
                              ELSE -1]
              /\ IF is_dup
                 THEN /\ kduplicates' = [kduplicates EXCEPT ![s] = @ + 1]
                      /\ kpc' = [kpc EXCEPT ![s] = "returned"]
                 ELSE /\ kpc' = [kpc EXCEPT ![s] = "encode"]
                      /\ UNCHANGED kduplicates
    /\ UNCHANGED <<kstore, ksearchable, kquestion, kunique,
                   pvars, cvars, dvars, qvars, avars, gvars, uvars, lvars,
                   rvars>>

\* lines 82-83 in session s
ConcEncode(s) ==
    /\ kpc[s] = "encode"
    /\ \E encode_ok \in BOOLEAN :
          IF encode_ok
          THEN /\ kquestion' = [kquestion EXCEPT ![s] = WithVector(@)]
               /\ kpc' = [kpc EXCEPT ![s] = "index"]
          ELSE /\ kpc' = [kpc EXCEPT ![s] = "raised"]
               /\ UNCHANGED kquestion
    /\ UNCHANGED <<kstore, ksearchable, khits, kunique, kduplicates,
                   pvars, cvars, dvars, qvars, avars, gvars, uvars, lvars,
                   rvars>>

\* lines 86-91 and 97 in session s
ConcIndex(s) ==
    /\ kpc[s] = "index"
    /\ \E result \in {"created", "noop", "raised"} :
          /\ kstore' = IF result = "created"
                       THEN Append(kstore, kquestion[s]) ELSE kstore
          /\ kunique' = IF result # "raised" /\ InsertAccepted(result)
                        THEN [kunique EXCEPT ![s] = Append(@, kquestion[s])]
                        ELSE kunique
          /\ kpc' = [kpc EXCEPT ![s] = IF result = "raised" THEN "raised"
                                       ELSE "returned"]
    /\ UNCHANGED <<ksearchable, kquestion, khits, kduplicates,
                   pvars, cvars, dvars, qvars, avars, gvars, uvars, lvars,
                   rvars>>

\* the index makes the stored documents visible to queries
ConcRefresh ==
    /\ ksearchable < Len(kstore)
    /\ ksearchable' = Len(kstore)
    /\ UNCHANGED <<kstore, kquestion, khits, kunique, kduplicates, kpc,
                   pvars, cvars, dvars, qvars, avars, gvars, uvars, lvars,
                   rvars>>

NextConc ==
    \/ \E s \in Sessions : ConcSearch(s)
    \/ \E s \in Sessions : ConcEncode(s)
    \/ \E s \in Sessions : ConcIndex(s)
    \/ ConcRefresh

SpecConc == InitConc /\ [][NextConc]_vars

\* C25: when two concurrent calls of add_unique_questions on the shared
\* question_bank each submit a record with the same comparison key while
\* the store holds no match, at most one of the two records is inserted
\* and accepted, under every interleaving of their searches and inserts
\* (stated here for the calls whose searches both completed).
C25_ConcurrentCallsStoreOneRecord ==
    \A s, t \in Sessions :
        (/\ s # t
         /\ ComparisonKey(kquestion[s].question_data)
              = ComparisonKey(kquestion[t].question_data)
         /\ khits[s] = 0 /\ khits[t] = 0)
        => ~(kunique[s] # <<>> /\ kunique[t] # <<>>)

=============================================================================
